---- MODULE Spec2Model ----
(***************************************************************************)
(* DomainSale: the lookup pipeline of src/domainsale (api.py, cache.py,    *)
(* resolver.py, validator.py, rdap.py) as a state machine.                 *)
(*                                                                         *)
(* State: the wall clock, the two module-level Cache objects of api.py,    *)
(* the Python list objects that hold a lookup's sources (lists are shared  *)
(* by reference, so they live in a heap), and the last Response returned.  *)
(* One action per operation: a get_domain_sale_status call, the passing of *)
(* time, and the Cache operations a caller may run directly.               *)
(*                                                                         *)
(* Spec is the lookup pipeline.  ValidatorSpec and RdapSpec run one        *)
(* component on its own, on an input drawn from a wider set than a lookup  *)
(* meets: extract_and_validate_record and check_for_sale_status.           *)
(***************************************************************************)
EXTENDS Integers, Sequences, FiniteSets, TLC

(***************************************************************************)
(* Program constants                                                       *)
(***************************************************************************)
DEFAULT_CACHE_TTL == 300

MAX_TXT_SIZE == 255

REQUIRED_FIELDS == <<"v", "price", "url", "contact">>

OPTIONAL_FIELDS == <<"expires">>

ALLOWED_FIELDS == REQUIRED_FIELDS \o OPTIONAL_FIELDS

ALLOWED_URL_SCHEMES == {"https"}

ALLOWED_CONTACT_SCHEMES == {"mailto"}

FOR_SALE_STATUS_TAG == "for-sale"

(***************************************************************************)
(* Bounds of the model                                                     *)
(***************************************************************************)
\* Tick steps the clock may take in one behaviour.
MaxTicks == 3

\* get_domain_sale_status calls in one behaviour.
MaxCalls == 2

(***************************************************************************)
(* Values                                                                  *)
(***************************************************************************)
None == "None"

Domains == {"a.example", "b.example"}

\* cache_ttl options a caller passes: the default and a shorter one.
TtlChoices == {DEFAULT_CACHE_TTL, DEFAULT_CACHE_TTL \div 2}

\* Seconds one Tick adds to the clock.
TickStep == DEFAULT_CACHE_TTL \div 2

\* The day datetime.now().date() returns, as <<year, month, day>>.
Today == <<2026, 6, 15>>

SeqToSet(s) == {s[i] : i \in 1..Len(s)}

UpperLetters ==
    {"A", "B", "C", "D", "E", "F", "G", "H", "I", "J", "K", "L", "M",
     "N", "O", "P", "Q", "R", "S", "T", "U", "V", "W", "X", "Y", "Z"}

DigitChars == {"0", "1", "2", "3", "4", "5", "6", "7", "8", "9"}

(***************************************************************************)
(* TXT payloads.  A payload is described by what the validator reads of    *)
(* it: its UTF-8 length, whether it starts with the version tag, what      *)
(* json.loads makes of the text after the tag, and the members of the      *)
(* JSON object in the order written.  A price is its sequence of           *)
(* characters; a URI is its scheme as written plus the part urlparse       *)
(* reads; an expires value is a date text (its shape and its digits).      *)
(* nonstr names the members whose JSON value is not a string (a number,    *)
(* null, ...): json.loads hands those to the validator as they are.        *)
(***************************************************************************)
GoodUrl == [scheme |-> "https", netloc |-> "sale.example", path |-> ""]

GoodContact == [scheme |-> "mailto", netloc |-> "", path |-> "o@example.com"]

GoodMembers(price) ==
    << [k |-> "v", val |-> "1"],
       [k |-> "price", val |-> price],
       [k |-> "url", val |-> GoodUrl],
       [k |-> "contact", val |-> GoodContact] >>

Price1000 == <<"U", "S", "D", ":", "1", "0", "0", "0">>

Price250 == <<"E", "U", "R", ":", "2", "5", "0", ".", "5">>

Content(id) ==
    CASE id = "good" ->
           [bytes |-> 98, utf8 |-> TRUE, tagged |-> TRUE, json |-> "object", nonstr |-> {},
            members |-> GoodMembers(Price1000)]
      [] id = "good2" ->
           [bytes |-> 99, utf8 |-> TRUE, tagged |-> TRUE, json |-> "object", nonstr |-> {},
            members |-> GoodMembers(Price250)]
      [] id = "badurl" ->
           [bytes |-> 97, utf8 |-> TRUE, tagged |-> TRUE, json |-> "object", nonstr |-> {},
            members |-> << [k |-> "v", val |-> "1"],
                           [k |-> "price", val |-> Price1000],
                           [k |-> "url", val |-> [scheme |-> "http", netloc |-> "x", path |-> ""]],
                           [k |-> "contact", val |-> GoodContact] >>]
      [] id = "extra" ->
           [bytes |-> 120, utf8 |-> TRUE, tagged |-> TRUE, json |-> "object", nonstr |-> {},
            members |-> GoodMembers(Price1000) \o << [k |-> "note", val |-> "x"] >>]
      [] id = "badjson" ->
           [bytes |-> 40, utf8 |-> TRUE, tagged |-> TRUE, json |-> "malformed", nonstr |-> {},
            members |-> << >>]
      [] id = "spf" ->
           [bytes |-> 30, utf8 |-> TRUE, tagged |-> FALSE, json |-> "malformed", nonstr |-> {},
            members |-> << >>]
      [] id = "big" ->
           [bytes |-> 260, utf8 |-> TRUE, tagged |-> TRUE, json |-> "object", nonstr |-> {},
            members |-> GoodMembers(Price1000)]
      [] id = "rawbytes" ->
           [bytes |-> 12, utf8 |-> FALSE, tagged |-> FALSE, json |-> "malformed", nonstr |-> {},
            members |-> << >>]

PayloadIds == {"good", "good2", "badurl", "extra", "badjson", "spf", "big", "rawbytes"}

(***************************************************************************)
(* Results of operations that may raise: a normal return carries val, a    *)
(* raise carries the exception class and its message.                      *)
(***************************************************************************)
Ok(v) == [tag |-> "ok", val |-> v]

Raise(e, m) == [tag |-> "raise", exc |-> e, msg |-> m]

\* The operation has not run yet.
NotCalled == [tag |-> "none"]

(***************************************************************************)
(* validator.py                                                            *)
(***************************************************************************)
AllIn(s, lo, hi, chars) == \A i \in lo..hi : s[i] \in chars

\* The whole of s is CUR:AMOUNT, i.e. [A-Z]{3}:[0-9]+(\.[0-9]{1,2})?
PriceBody(s) ==
    /\ Len(s) >= 5
    /\ AllIn(s, 1, 3, UpperLetters)
    /\ s[4] = ":"
    /\ \E n \in 5..Len(s) :
          /\ AllIn(s, 5, n, DigitChars)
          /\ \/ n = Len(s)
             \/ /\ n + 1 < Len(s)
                /\ s[n + 1] = "."
                /\ Len(s) - (n + 1) \in {1, 2}
                /\ AllIn(s, n + 2, Len(s), DigitChars)

\* re.compile(r'^...$').match: "$" matches at the end of the string and
\* also just before a newline that ends the string.
price_pattern_match(s) ==
    \/ PriceBody(s)
    \/ /\ Len(s) >= 1
       /\ s[Len(s)] = "\n"
       /\ PriceBody(SubSeq(s, 1, Len(s) - 1))

\* urlparse lower-cases the scheme it returns.
Lower(scheme) ==
    CASE scheme = "HTTPS" -> "https"
      [] scheme = "HTTP" -> "http"
      [] scheme = "MAILTO" -> "mailto"
      [] OTHER -> scheme

urlparse(u) == [scheme |-> Lower(u.scheme), netloc |-> u.netloc, path |-> u.path]

\* Keys of the dict json.loads builds, in insertion order (first occurrence).
RECURSIVE KeyOrder(_)
KeyOrder(members) ==
    IF Len(members) = 0 THEN << >>
    ELSE LET init == KeyOrder(SubSeq(members, 1, Len(members) - 1))
             k == members[Len(members)].k
         IN IF k \in SeqToSet(init) THEN init ELSE Append(init, k)

\* The value json.loads keeps for key k: the last member written with it.
LastVal(members, k) ==
    LET i == CHOOSE j \in 1..Len(members) :
               /\ members[j].k = k
               /\ \A l \in (j + 1)..Len(members) : members[l].k # k
    IN members[i].val

\* json.loads on the text after the version tag.  p.json is "object",
\* "array", "scalar" (a string, a number, NaN, ...), "trailing" (a JSON
\* value followed by something other than white space) or "malformed".
json_loads(p) ==
    CASE p.json = "object" ->
           Ok([kind |-> "dict", keys |-> KeyOrder(p.members),
               get |-> [k \in SeqToSet(KeyOrder(p.members)) |-> LastVal(p.members, k)],
               nonstr |-> p.nonstr \cap SeqToSet(KeyOrder(p.members))])
      [] p.json = "array" -> Ok([kind |-> "list", keys |-> << >>, get |-> << >>])
      [] p.json = "scalar" -> Ok([kind |-> "scalar", keys |-> << >>, get |-> << >>])
      [] OTHER -> Raise("JSONDecodeError", "Failed to parse JSON content")

FirstNotIn(s, allowed) ==
    LET hits == {i \in 1..Len(s) : s[i] \notin allowed}
    IN IF hits = {} THEN 0 ELSE CHOOSE i \in hits : \A j \in hits : i <= j

\* The schema check without the loop of lines 109-111.
_validate_schema_open(record) ==
    IF record.kind # "dict"
    THEN Raise("SchemaValidationError", "Record must be a JSON object")
    ELSE IF FirstNotIn(REQUIRED_FIELDS, SeqToSet(record.keys)) # 0
    THEN Raise("SchemaValidationError", "Missing required field")
    ELSE Ok(None)

_validate_schema(record) ==
    IF record.kind # "dict"
    THEN Raise("SchemaValidationError", "Record must be a JSON object")
    ELSE IF FirstNotIn(REQUIRED_FIELDS, SeqToSet(record.keys)) # 0
    THEN Raise("SchemaValidationError", "Missing required field")
    ELSE IF FirstNotIn(record.keys, SeqToSet(ALLOWED_FIELDS)) # 0
    THEN Raise("SchemaValidationError", "Unknown field")
    ELSE Ok(None)

_validate_url(url) ==
    LET parsed_url == urlparse(url)
    IN IF parsed_url.scheme \notin ALLOWED_URL_SCHEMES
       THEN Raise("FieldValidationError", "Invalid URL: Invalid URL scheme")
       ELSE IF parsed_url.netloc = ""
       THEN Raise("FieldValidationError", "Invalid URL: URL must contain a domain")
       ELSE Ok(None)

_validate_contact(contact) ==
    LET parsed_contact == urlparse(contact)
    IN IF parsed_contact.scheme \notin ALLOWED_CONTACT_SCHEMES
       THEN Raise("FieldValidationError", "Invalid contact: Invalid contact scheme")
       ELSE IF parsed_contact.scheme = "mailto" /\ parsed_contact.path = ""
       THEN Raise("FieldValidationError",
                  "Invalid contact: mailto: URI must contain an email address")
       ELSE Ok(None)

IsLeap(y) == (y % 4 = 0 /\ y % 100 # 0) \/ y % 400 = 0

DaysIn(y, m) ==
    IF m = 2 THEN (IF IsLeap(y) THEN 29 ELSE 28)
    ELSE IF m \in {4, 6, 9, 11} THEN 30 ELSE 31

\* d1 < d2 for dates <<year, month, day>>.
DateBefore(d1, d2) ==
    \/ d1[1] < d2[1]
    \/ d1[1] = d2[1] /\ d1[2] < d2[2]
    \/ d1[1] = d2[1] /\ d1[2] = d2[2] /\ d1[3] < d2[3]

\* expires.shape: "date" is dddd-dd-dd, "date_nl" the same followed by one
\* newline (the pattern's "$" lets it through, strptime does not), anything
\* else fails the pattern.
_validate_expires(expires) ==
    IF expires.shape \notin {"date", "date_nl"}
    THEN Raise("FieldValidationError", "Invalid expires format")
    ELSE IF \/ expires.shape = "date_nl"
            \/ expires.date[1] < 1
            \/ expires.date[2] \notin 1..12
            \/ expires.date[3] \notin 1..DaysIn(expires.date[1], expires.date[2])
    THEN Raise("FieldValidationError", "Invalid expires date")
    ELSE IF DateBefore(expires.date, Today)
    THEN Raise("FieldValidationError", "Expires date is in the past")
    ELSE Ok(None)

\* A member that is not a string: it differs from "1" (line 124);
\* Pattern.match raises TypeError on it (lines 128 and 209, outside any
\* try); urlparse raises on it or returns a bytes scheme, and lines 168
\* and 195 turn either into FieldValidationError.
_validate_fields(record) ==
    IF "v" \in record.nonstr \/ record.get["v"] # "1"
    THEN Raise("FieldValidationError", "Invalid version")
    ELSE IF "price" \in record.nonstr
    THEN Raise("TypeError", "expected string or bytes-like object")
    ELSE IF ~price_pattern_match(record.get["price"])
    THEN Raise("FieldValidationError", "Invalid price format")
    ELSE IF "url" \in record.nonstr
    THEN Raise("FieldValidationError", "Invalid URL: not a string")
    ELSE IF _validate_url(record.get["url"]).tag = "raise"
    THEN _validate_url(record.get["url"])
    ELSE IF "contact" \in record.nonstr
    THEN Raise("FieldValidationError", "Invalid contact: not a string")
    ELSE IF _validate_contact(record.get["contact"]).tag = "raise"
    THEN _validate_contact(record.get["contact"])
    ELSE IF "expires" \notin SeqToSet(record.keys)
    THEN Ok(None)
    ELSE IF "expires" \in record.nonstr
    THEN Raise("TypeError", "expected string or bytes-like object")
    ELSE _validate_expires(record.get["expires"])

\* The None the validator returns for a payload without the version tag.
NoRecord == [kind |-> "none", keys |-> << >>, get |-> << >>]

\* The validator with the version tag looked at before the size.
extract_tag_before_size(txt_record) ==
    IF ~txt_record.tagged
    THEN Ok(NoRecord)
    ELSE IF txt_record.bytes > MAX_TXT_SIZE
    THEN Raise("SizeExceededError", "TXT record exceeds maximum size of 255 bytes")
    ELSE LET parsed == json_loads(txt_record)
         IN IF parsed.tag = "raise"
            THEN Raise("SchemaValidationError", parsed.msg)
            ELSE LET schema == _validate_schema(parsed.val)
                 IN IF schema.tag = "raise"
                    THEN schema
                    ELSE LET fields == _validate_fields(parsed.val)
                         IN IF fields.tag = "ok"
                            THEN Ok(parsed.val)
                            ELSE IF fields.exc = "FieldValidationError"
                            THEN fields
                            ELSE Raise("SchemaValidationError",
                                       "Error validating TXT record")

\* txt_record is the payload as described above.  Ok(NoRecord) is "no
\* record"; Ok(dict) is the validated record.  Line 85 turns an exception
\* that is neither of the two validation errors into SchemaValidationError.
extract_and_validate_record(txt_record) ==
    IF txt_record.bytes > MAX_TXT_SIZE
    THEN Raise("SizeExceededError", "TXT record exceeds maximum size of 255 bytes")
    ELSE IF ~txt_record.tagged
    THEN Ok(NoRecord)
    ELSE LET parsed == json_loads(txt_record)
         IN IF parsed.tag = "raise"
            THEN Raise("SchemaValidationError", parsed.msg)
            ELSE LET schema == _validate_schema(parsed.val)
                 IN IF schema.tag = "raise"
                    THEN schema
                    ELSE LET fields == _validate_fields(parsed.val)
                         IN IF fields.tag = "ok"
                            THEN Ok(parsed.val)
                            ELSE IF fields.exc = "FieldValidationError"
                            THEN fields
                            ELSE Raise("SchemaValidationError",
                                       "Error validating TXT record")

(***************************************************************************)
(* resolver.py.  What the network answers to one TXT query:                *)
(*   kind   "answer", or the exception dns.resolver.resolve raises         *)
(*   rdatas the payloads of the answer, in the answer's order              *)
(*   trust  "ad": the answer carries the authenticated-data flag;          *)
(*          "signed": a signed zone, the answer not authenticated          *)
(***************************************************************************)
AnswerLists ==
    { <<"spf", "big", "badurl", "good", "extra">>, <<"extra", "badjson">>,
      <<"big">>, <<"rawbytes">> }

DnsOutcomes ==
    {[kind |-> "answer", rdatas |-> r, trust |-> "ad"] : r \in AnswerLists}
    \cup
    {[kind |-> "answer", rdatas |-> r, trust |-> "signed"] :
        r \in {a \in AnswerLists : "good" \in SeqToSet(a)}}
    \cup
    {[kind |-> k, rdatas |-> << >>, trust |-> "ad"] :
        k \in {"NoAnswer", "NXDOMAIN", "Timeout", "ValidationFailure", "OSError"}}

\* resolve() returns whatever answer arrives: no line reads the answer's
\* flags, so trust plays no part.
_lookup_with_dnssec(net) ==
    CASE net.kind = "answer" -> Ok(net.rdatas)
      [] net.kind \in {"NoAnswer", "NXDOMAIN", "Timeout"} -> Raise(net.kind, net.kind)
      [] OTHER -> Raise("DNSSECValidationError", "DNS lookup or DNSSEC validation failed")

\* The payloads kept by the loop of lines 62-72, in order.
RECURSIVE KeepSized(_)
KeepSized(rdatas) ==
    IF Len(rdatas) = 0 THEN << >>
    ELSE LET rest == KeepSized(Tail(rdatas))
         IN IF Content(Head(rdatas)).bytes > MAX_TXT_SIZE
            THEN rest
            ELSE <<Head(rdatas)>> \o rest

\* The lookup with a timeout handled like NoAnswer.
lookup_for_sale_record_timeout_as_empty(net) ==
    LET answers == _lookup_with_dnssec(net)
    IN CASE answers.tag = "ok" ->
              IF \E i \in 1..Len(answers.val) : ~Content(answers.val[i]).utf8
              THEN Raise("UnicodeDecodeError", "invalid start byte")
              ELSE Ok(KeepSized(answers.val))
         [] answers.exc \in {"NoAnswer", "NXDOMAIN", "Timeout"} -> Ok(<< >>)
         [] OTHER -> answers

\* Ok(txt_records): the caller pairs it with a new list ["dns"].
lookup_for_sale_record(net) ==
    LET answers == _lookup_with_dnssec(net)
    IN CASE answers.tag = "ok" ->
              IF \E i \in 1..Len(answers.val) : ~Content(answers.val[i]).utf8
              THEN Raise("UnicodeDecodeError", "invalid start byte")
              ELSE Ok(KeepSized(answers.val))
         [] answers.exc \in {"NoAnswer", "NXDOMAIN"} -> Ok(<< >>)
         [] answers.exc = "Timeout" -> Raise("TimeoutError", "DNS query timed out")
         [] answers.exc = "ValidationFailure" ->
              Raise("DNSSECValidationError", "DNSSEC validation failed")
         [] OTHER -> answers

(***************************************************************************)
(* rdap.py.  What the network answers to one RDAP check of a new client:   *)
(*   bootstrap  outcome of the GET of the bootstrap table                  *)
(*   server     the table names a server for the domain                    *)
(*   query      outcome of the GET of <server>/domain/<domain>             *)
(*   body       the body: a JSON "object", "array" or "number", or text    *)
(*              that is not JSON ("notjson")                               *)
(*   status     the object's status member: absent, a string, or a list    *)
(***************************************************************************)
RdapBody(status_kind, status) ==
    [bootstrap |-> "200", server |-> TRUE, query |-> "200", body |-> "object",
     status_kind |-> status_kind, status |-> status]

RdapFail(bootstrap, server, query, body) ==
    [bootstrap |-> bootstrap, server |-> server, query |-> query, body |-> body,
     status_kind |-> "absent", status |-> << >>]

RdapOutcomes ==
    { RdapBody("list", <<"for-sale">>),
      RdapBody("list", <<"active", "for-sale">>),
      RdapBody("list", <<"active">>),
      RdapBody("string", <<"for-sale">>),
      RdapBody("absent", << >>),
      RdapFail("200", TRUE, "200", "number"),
      RdapFail("200", TRUE, "404", "object"),
      RdapFail("200", TRUE, "Timeout", "object"),
      RdapFail("200", FALSE, "200", "object"),
      RdapFail("Timeout", TRUE, "200", "object"),
      RdapFail("500", TRUE, "200", "object") }

\* RDAPClient.__init__: the client as api.py line 197 constructs it for
\* each call.
RDAPClient ==
    [bootstrap_servers |-> << >>, bootstrap_timestamp |-> 0,
     bootstrap_ttl |-> 3600]

\* The test of line 135 at time current_time.
NeedsRefresh(client, current_time) ==
    \/ client.bootstrap_servers = << >>
    \/ current_time - client.bootstrap_timestamp > client.bootstrap_ttl

\* The client of one call starts with an empty table, so line 135 always
\* refreshes.  requests.Timeout is a RequestException: line 183 turns it
\* into RDAPError.
_refresh_bootstrap_servers(net) ==
    CASE net.bootstrap = "200" -> Ok(None)
      [] net.bootstrap = "Timeout" -> Raise("RDAPError", "RDAP bootstrap lookup failed")
      [] OTHER -> Raise("RDAPError", "Error refreshing RDAP bootstrap servers")

_get_rdap_server_url(net) ==
    LET refreshed == _refresh_bootstrap_servers(net)
    IN IF refreshed.tag = "raise"
       THEN Raise("RDAPError", "Error getting RDAP server URL")
       ELSE Ok(net.server)

_get_rdap_data(net) ==
    LET rdap_server_url == _get_rdap_server_url(net)
    IN IF rdap_server_url.tag = "raise"
       THEN Raise("RDAPError", "Error getting RDAP data")
       ELSE IF ~rdap_server_url.val
       THEN Raise("RDAPError", "Error getting RDAP data")
       ELSE IF net.query = "Timeout"
       THEN Raise("RDAPError", "RDAP query failed")
       ELSE IF net.query # "200"
       THEN Raise("RDAPError", "Error getting RDAP data")
       ELSE IF net.body = "notjson"
       THEN Raise("RDAPError", "RDAP query failed")
       ELSE Ok([body |-> net.body, status_kind |-> net.status_kind,
                status |-> net.status])

\* The check without the isinstance test of line 59.
check_for_sale_status_any_status(net) ==
    LET rdap_data == _get_rdap_data(net)
    IN IF rdap_data.tag = "raise"
       THEN rdap_data
       ELSE IF rdap_data.val.body = "array"
       THEN Ok(FALSE)
       ELSE IF rdap_data.val.body # "object"
       THEN Raise("RDAPError", "Error checking RDAP status")
       ELSE IF rdap_data.val.status_kind \in {"list", "string"}
       THEN Ok(FOR_SALE_STATUS_TAG \in SeqToSet(rdap_data.val.status))
       ELSE Ok(FALSE)

\* Ok(TRUE), Ok(FALSE) or a raise; every raise leaves as RDAPError.
\* "status" in rdap_data is False on an array (of RDAP objects) and raises
\* TypeError on a number.
check_for_sale_status(net) ==
    LET rdap_data == _get_rdap_data(net)
    IN IF rdap_data.tag = "raise"
       THEN rdap_data
       ELSE IF rdap_data.val.body = "array"
       THEN Ok(FALSE)
       ELSE IF rdap_data.val.body # "object"
       THEN Raise("RDAPError", "Error checking RDAP status")
       ELSE IF rdap_data.val.status_kind = "list"
       THEN Ok(FOR_SALE_STATUS_TAG \in SeqToSet(rdap_data.val.status))
       ELSE Ok(FALSE)

(***************************************************************************)
(* cache.py.  A Cache is [ttl, cache]: cache maps the keys present to      *)
(* [value, expiry].  Cache_get returns [hit, value, cache]: hit is "the    *)
(* value returned is not None", cache is the dict afterwards.              *)
(***************************************************************************)
Without(f, key) == [k \in (DOMAIN f) \ {key} |-> f[k]]

With(f, key, v) == [k \in (DOMAIN f) \cup {key} |-> IF k = key THEN v ELSE f[k]]

\* Cache_get with "<=" for "<" on line 45: an entry is still served at its
\* expiry instant.
Cache_get_inclusive(c, key, t) ==
    IF key \in DOMAIN c.cache
    THEN IF t <= c.cache[key].expiry
         THEN [hit |-> TRUE, value |-> c.cache[key].value, cache |-> c]
         ELSE [hit |-> FALSE, value |-> None,
               cache |-> [c EXCEPT !.cache = Without(@, key)]]
    ELSE [hit |-> FALSE, value |-> None, cache |-> c]

Cache_get(c, key, t) ==
    IF key \in DOMAIN c.cache
    THEN IF t < c.cache[key].expiry
         THEN [hit |-> TRUE, value |-> c.cache[key].value, cache |-> c]
         ELSE [hit |-> FALSE, value |-> None,
               cache |-> [c EXCEPT !.cache = Without(@, key)]]
    ELSE [hit |-> FALSE, value |-> None, cache |-> c]

Cache_set(c, key, value, t) ==
    [c EXCEPT !.cache = With(@, key, [value |-> value, expiry |-> t + c.ttl])]

Cache_invalidate(c, key) ==
    IF key \in DOMAIN c.cache THEN [c EXCEPT !.cache = Without(@, key)] ELSE c

\* __len__: the dict is rebuilt without the expired entries.
Cache_len(c, t) ==
    LET live == {k \in DOMAIN c.cache : t < c.cache[k].expiry}
    IN [len |-> Cardinality(live),
        cache |-> [c EXCEPT !.cache = [k \in live |-> c.cache[k]]]]

\* The wrapper writing the cache back as it found it when func raises: an
\* entry that get just dropped is there again.
cached_keeps_entry_on_raise(c, key, t, result) ==
    LET got == Cache_get(c, key, t)
    IN IF got.hit
       THEN [result |-> Ok(got.value), cache |-> got.cache, queried |-> FALSE]
       ELSE IF result.tag = "raise"
       THEN [result |-> result, cache |-> c, queried |-> TRUE]
       ELSE [result |-> result, queried |-> TRUE,
             cache |-> Cache_set(got.cache, key, result.val, t)]

\* The decorator's wrapper.  result is what func returns or raises when it
\* is called; queried tells whether it was called.
cached(c, key, t, result) ==
    LET got == Cache_get(c, key, t)
    IN IF got.hit
       THEN [result |-> Ok(got.value), cache |-> got.cache, queried |-> FALSE]
       ELSE IF result.tag = "raise"
       THEN [result |-> result, cache |-> got.cache, queried |-> TRUE]
       ELSE [result |-> result, queried |-> TRUE,
             cache |-> Cache_set(got.cache, key, result.val, t)]

(***************************************************************************)
(* api.py: state                                                           *)
(***************************************************************************)
VARIABLES
    now,         \* time.time()
    ticks,       \* Tick steps taken
    calls,       \* get_domain_sale_status calls made
    dns_cache,   \* the Cache of line 33; a value is [txt_records, sources]
    rdap_cache,  \* the Cache of line 34; a value is a boolean
    heap,        \* the sources lists alive: reference -> list
    trust,       \* for each list alive, the trust of the answer it came with
    last,        \* the last call: its arguments, its Response, what it did
    payload,      \* the txt_record given to extract_and_validate_record
    outcome,      \* what extract_and_validate_record returned or raised
    rdap_reply,   \* what the network answers to check_for_sale_status
    rdap_outcome, \* what check_for_sale_status returned or raised
    store,        \* a Cache shared by concurrent callers
    threads,      \* each caller: its operation, its position, its locals
    given_info,    \* the sale_info given to render_sale_info
    given_message, \* the error_message given to render_error
    rendered,      \* what the HTML renderer returned
    cli_response,  \* the Response get_domain_sale_status returned to main
    cli_format,    \* the --format argument of main
    cli_exit,      \* what main returned
    probe          \* one Cache entry followed from its set to its reads

vars == <<now, ticks, calls, dns_cache, rdap_cache, heap, trust, last,
          payload, outcome, rdap_reply, rdap_outcome, store, threads,
          given_info, given_message, rendered,
          cli_response, cli_format, cli_exit, probe>>

\* The variables of the lookup pipeline, and those of a component run on
\* its own.
api_vars == <<now, ticks, calls, dns_cache, rdap_cache, heap, trust, last>>

validator_vars == <<payload, outcome>>

rdap_vars == <<rdap_reply, rdap_outcome>>

thread_vars == <<store, threads>>

render_vars == <<given_info, given_message, rendered>>

cli_vars == <<cli_response, cli_format, cli_exit>>

clock_vars == <<probe>>

unit_vars == <<validator_vars, rdap_vars, thread_vars, render_vars, cli_vars,
               clock_vars>>

dns_key(domain) == <<"dns", domain>>

rdap_key(domain) == <<"rdap", domain>>

Some(v) == [some |-> TRUE, v |-> v]

Nothing == [some |-> FALSE, v |-> None]

\* A source is the str "dns" or a list object.
ScalarDns == [list |-> FALSE, items |-> <<"dns">>]

ListOf(items) == [list |-> TRUE, items |-> items]

Refs == 1..(Cardinality(Domains) + 2)

NewRef == CHOOSE r \in Refs : r \notin DOMAIN heap /\ \A q \in Refs \ DOMAIN heap : r <= q

\* State of key in cache c at time t, before a get.
EntryState(c, key, t) ==
    IF key \notin DOMAIN c.cache THEN "absent"
    ELSE IF t < c.cache[key].expiry THEN "live" ELSE "expired"

(***************************************************************************)
(* api.py: get_domain_sale_status                                          *)
(***************************************************************************)
\* bool(record_data) of lines 184 and 190.
Truthy(record_data) == record_data.kind = "dict" /\ Len(record_data.keys) > 0

\* dict.get of lines 210-213.
DictGet(record_data, k) ==
    IF k \in SeqToSet(record_data.keys) THEN Some(record_data.get[k]) ELSE Nothing

Validated ==
    [txt_record \in PayloadIds |-> extract_and_validate_record(Content(txt_record))]

\* The loop with the except clause of line 186 ending the scan: the first
\* payload that fails validation is the last one examined.
RECURSIVE ScanRecords_stops_at_error(_, _, _)
ScanRecords_stops_at_error(txt_records, i, errors) ==
    IF i > Len(txt_records)
    THEN [record_data |-> NoRecord, errors |-> errors, raised |-> None,
          examined |-> Len(txt_records), accepted |-> 0]
    ELSE LET r == Validated[txt_records[i]]
         IN IF r.tag = "raise"
            THEN [record_data |-> NoRecord, errors |-> Append(errors, r.msg),
                  raised |-> None, examined |-> i, accepted |-> 0]
            ELSE IF Truthy(r.val)
            THEN [record_data |-> r.val, errors |-> errors, raised |-> None,
                  examined |-> i, accepted |-> i]
            ELSE ScanRecords_stops_at_error(txt_records, i + 1, errors)

\* The loop of lines 180-187 from payload i on, errors collected so far.
\* accepted is the index of the payload whose record the loop left with,
\* examined the number of payloads handed to the validator.
\* The loop ending at the first payload for which the validator returns
\* no record.
RECURSIVE ScanRecords_stops_at_no_record(_, _, _)
ScanRecords_stops_at_no_record(txt_records, i, errors) ==
    IF i > Len(txt_records)
    THEN [record_data |-> NoRecord, errors |-> errors, raised |-> None,
          examined |-> Len(txt_records), accepted |-> 0]
    ELSE LET r == Validated[txt_records[i]]
         IN IF r.tag = "raise"
            THEN IF r.exc \in {"SchemaValidationError", "FieldValidationError",
                               "SizeExceededError"}
                 THEN ScanRecords_stops_at_no_record(txt_records, i + 1,
                                                     Append(errors, r.msg))
                 ELSE [record_data |-> NoRecord, errors |-> errors, raised |-> r.exc,
                       examined |-> i, accepted |-> 0]
            ELSE [record_data |-> r.val, errors |-> errors, raised |-> None,
                  examined |-> i, accepted |-> IF Truthy(r.val) THEN i ELSE 0]

RECURSIVE ScanRecords(_, _, _)
ScanRecords(txt_records, i, errors) ==
    IF i > Len(txt_records)
    THEN [record_data |-> NoRecord, errors |-> errors, raised |-> None,
          examined |-> Len(txt_records), accepted |-> 0]
    ELSE LET r == Validated[txt_records[i]]
         IN IF r.tag = "raise"
            THEN IF r.exc \in {"SchemaValidationError", "FieldValidationError",
                               "SizeExceededError"}
                 THEN ScanRecords(txt_records, i + 1, Append(errors, r.msg))
                 ELSE [record_data |-> NoRecord, errors |-> errors, raised |-> r.exc,
                       examined |-> i, accepted |-> 0]
            ELSE IF Truthy(r.val)
            THEN [record_data |-> r.val, errors |-> errors, raised |-> None,
                  examined |-> i, accepted |-> i]
            ELSE ScanRecords(txt_records, i + 1, errors)

\* Line 201 without RDAPError in its tuple: the failure reaches the outer
\* handlers.
rdap_except_misses_rdaperror(exc) ==
    IF exc \in {"TimeoutError"}
    THEN [error |-> "RDAP check failed", raised |-> None]
    ELSE [error |-> None, raised |-> exc]

\* The handlers of lines 201-202: the error appended, or the exception
\* passed on to the outer handlers.
rdap_except(exc) ==
    IF exc \in {"RDAPError", "TimeoutError"}
    THEN [error |-> "RDAP check failed", raised |-> None]
    ELSE [error |-> None, raised |-> exc]

\* The handlers without lines 220-222: an exception that is neither
\* DNSSECValidationError nor TimeoutError leaves the function.
api_except_no_catch_all(exc) ==
    IF exc = "DNSSECValidationError"
    THEN [error |-> "DNSSEC validation failed", raised |-> None]
    ELSE IF exc = "TimeoutError"
    THEN [error |-> "Timeout", raised |-> None]
    ELSE [error |-> "Unexpected error", raised |-> exc]

\* The handlers of lines 216-222: the error appended, and the exception that
\* leaves the function (none: the last handler takes every Exception).
api_except(exc) ==
    IF exc = "DNSSECValidationError"
    THEN [error |-> "DNSSEC validation failed", raised |-> None]
    ELSE IF exc = "TimeoutError"
    THEN [error |-> "Timeout", raised |-> None]
    ELSE [error |-> "Unexpected error", raised |-> None]

\* Lines 199-200 left out: sources is never extended.
append_rdap_never(sources_list, rdap_for_sale) == sources_list

\* Lines 199-200: the list sources after the RDAP answer.
append_rdap(sources_list, rdap_for_sale) ==
    IF rdap_for_sale THEN Append(sources_list, "rdap") ELSE sources_list

\* Line 205 left out: the RDAP answer does not decide.
rdap_blocks_never(enable_rdap_check, rdap_for_sale) == FALSE

\* Line 205: the call returns the not-for-sale Response.
rdap_blocks(enable_rdap_check, rdap_for_sale) == enable_rdap_check /\ ~rdap_for_sale

\* Lines 163-165.
WithTtl(c, cache_ttl) ==
    IF cache_ttl # DEFAULT_CACHE_TTL THEN [c EXCEPT !.ttl = cache_ttl] ELSE c

\* The wrapper served the call from the cache: the function was not called.
NoDnsQuery == [kind |-> "none", rdatas |-> << >>, trust |-> "ad"]

NoRdapQuery == RdapFail("none", FALSE, "none", "none")

\* DomainSaleResponse(domain=domain) of line 168, with what the call did.
\* called is FALSE before the first call; at is the time of the call;
\* answer is what the network answered to the call's TXT query, if it
\* made one; bootstrap is what it answered to the call's fetch of the RDAP
\* bootstrap table, "none" without a fetch.
Blank(called, domain, enable_rdap_check, cache_ttl, at) ==
    [called |-> called, domain |-> domain,
     enable_rdap_check |-> enable_rdap_check, cache_ttl |-> cache_ttl, at |-> at,
     for_sale |-> FALSE, price |-> Nothing, url |-> Nothing, contact |-> Nothing,
     expires |-> Nothing, source |-> ScalarDns, source_ref |-> 0, errors |-> << >>,
     raised |-> None,
     dns_before |-> "unused", dns_queries |-> 0, dns_result |-> "none",
     answer |-> NoDnsQuery,
     trust |-> "none", txt_records |-> << >>, examined |-> 0, accepted |-> 0,
     rdap_before |-> "unused", rdap_queries |-> 0, rdap_result |-> "skipped",
     bootstrap |-> "none"]

\* The state a call leaves: the caches, the lists still referenced by a
\* cache entry or by the Response, and the Response.
Return(dns_c, rdap_c, heap_c, trust_c, response) ==
    LET alive == {dns_c.cache[k].value.sources : k \in DOMAIN dns_c.cache}
                 \cup (IF response.source_ref # 0 THEN {response.source_ref} ELSE {})
    IN /\ dns_cache' = dns_c
       /\ rdap_cache' = rdap_c
       /\ heap' = [r \in alive |-> heap_c[r]]
       /\ trust' = [r \in alive |-> trust_c[r]]
       /\ last' = response
       /\ calls' = calls + 1
       /\ UNCHANGED <<now, ticks>>
       /\ UNCHANGED unit_vars

\* Lines 193-214, entered with a validated record: base is the Response so
\* far, rdap the wrapper's outcome for _check_rdap_status (read only when
\* enable_rdap_check).
Decide(base, dns_c, rdap_c0, heap_c, trust_c, record_data, sources, rdap) ==
    LET enabled == base.enable_rdap_check
        failed == enabled /\ rdap.result.tag = "raise"
        handled == rdap_except(IF failed THEN rdap.result.exc ELSE "RDAPError")
        escaped == failed /\ handled.raised # None
        rdap_for_sale == enabled /\ ~failed /\ rdap.result.val
        heap_d == [heap_c EXCEPT ![sources] = append_rdap(@, rdap_for_sale)]
        errors_d == IF failed /\ ~escaped THEN Append(base.errors, handled.error)
                    ELSE IF escaped THEN Append(base.errors, api_except(handled.raised).error)
                    ELSE base.errors
        seen == [base EXCEPT
                   !.errors = errors_d,
                   !.raised = IF escaped THEN api_except(handled.raised).raised ELSE None,
                   !.rdap_queries = IF enabled /\ rdap.queried THEN 1 ELSE 0,
                   !.rdap_result = IF ~enabled THEN "skipped"
                                   ELSE IF failed THEN "raise"
                                   ELSE IF rdap.result.val THEN "true" ELSE "false"]
        rdap_c == IF enabled THEN rdap.cache ELSE rdap_c0
    IN IF escaped \/ rdap_blocks(enabled, rdap_for_sale)
       THEN Return(dns_c, rdap_c, heap_d, trust_c, seen)
       ELSE Return(dns_c, rdap_c, heap_d, trust_c,
                   [seen EXCEPT
                      !.for_sale = TRUE,
                      !.price = DictGet(record_data, "price"),
                      !.url = DictGet(record_data, "url"),
                      !.contact = DictGet(record_data, "contact"),
                      !.expires = DictGet(record_data, "expires"),
                      !.source = ListOf(heap_d[sources]),
                      !.source_ref = sources])

\* The pure steps, tabulated once over the inputs the model draws.
Looked == [net \in DnsOutcomes \cup {NoDnsQuery} |-> lookup_for_sale_record(net)]

Checked == [net \in RdapOutcomes \cup {NoRdapQuery} |-> check_for_sale_status(net)]

Scanned ==
    [txt_records \in {Looked[net].val : net \in {n \in DnsOutcomes : Looked[n].tag = "ok"}}
        |-> ScanRecords(txt_records, 1, << >>)]

get_domain_sale_status(domain, enable_rdap_check, cache_ttl) ==
    LET dns_c0 == WithTtl(dns_cache, cache_ttl)
        rdap_c0 == WithTtl(rdap_cache, cache_ttl)
        dns_before == EntryState(dns_c0, dns_key(domain), now)
        rdap_before == EntryState(rdap_c0, rdap_key(domain), now)
        response == Blank(TRUE, domain, enable_rdap_check, cache_ttl, now)
    IN /\ calls < MaxCalls
       /\ \E dns_net \in (IF dns_before = "live" THEN {NoDnsQuery} ELSE DnsOutcomes) :
         LET looked == Looked[dns_net]
             func == IF looked.tag = "ok"
                     THEN Ok([txt_records |-> looked.val, sources |-> NewRef])
                     ELSE looked
             dns == cached(dns_c0, dns_key(domain), now, func)
             made == dns.queried /\ dns.result.tag = "ok"
             heap_c == IF made THEN With(heap, NewRef, <<"dns">>) ELSE heap
             trust_c == IF made THEN With(trust, NewRef, dns_net.trust) ELSE trust
             asked == [response EXCEPT
                         !.dns_before = dns_before,
                         !.dns_queries = IF dns.queried THEN 1 ELSE 0,
                         !.answer = dns_net,
                         !.dns_result = dns.result.tag]
         IN IF dns.result.tag = "raise"
            THEN Return(dns.cache, rdap_c0, heap_c, trust_c,
                        [asked EXCEPT
                           !.errors = <<api_except(dns.result.exc).error>>,
                           !.raised = api_except(dns.result.exc).raised])
            ELSE LET txt_records == dns.result.val.txt_records
                     sources == dns.result.val.sources
                     scan == Scanned[txt_records]
                     base == [asked EXCEPT
                                !.trust = trust_c[sources],
                                !.txt_records = txt_records,
                                !.examined = scan.examined,
                                !.accepted = scan.accepted,
                                !.errors = scan.errors]
                 IN IF scan.raised # None
                    THEN Return(dns.cache, rdap_c0, heap_c, trust_c,
                                [base EXCEPT
                                   !.errors = Append(@, api_except(scan.raised).error),
                                   !.raised = api_except(scan.raised).raised])
                    ELSE IF ~Truthy(scan.record_data)
                    THEN Return(dns.cache, rdap_c0, heap_c, trust_c, base)
                    ELSE IF ~enable_rdap_check
                    THEN Decide(base, dns.cache, rdap_c0, heap_c, trust_c,
                                scan.record_data, sources,
                                [result |-> Ok(FALSE), cache |-> rdap_c0, queried |-> FALSE])
                    ELSE \E rdap_net \in (IF rdap_before = "live"
                                          THEN {NoRdapQuery} ELSE RdapOutcomes) :
                            Decide([base EXCEPT
                                      !.rdap_before = rdap_before,
                                      !.bootstrap =
                                          IF NeedsRefresh(RDAPClient, now)
                                          THEN rdap_net.bootstrap ELSE "none"],
                                   dns.cache, rdap_c0, heap_c, trust_c,
                                   scan.record_data, sources,
                                   cached(rdap_c0, rdap_key(domain), now,
                                          Checked[rdap_net]))

\* Time passes between calls.
Tick ==
    /\ ticks < MaxTicks
    /\ now' = now + TickStep
    /\ ticks' = ticks + 1
    /\ UNCHANGED <<calls, dns_cache, rdap_cache, heap, trust, last>>
    /\ UNCHANGED unit_vars

\* The module as imported: two empty caches, no call made.
ApiInit ==
    /\ now = 0
    /\ ticks = 0
    /\ calls = 0
    /\ dns_cache = [ttl |-> DEFAULT_CACHE_TTL, cache |-> << >>]
    /\ rdap_cache = [ttl |-> DEFAULT_CACHE_TTL, cache |-> << >>]
    /\ heap = << >>
    /\ trust = << >>
    /\ last = Blank(FALSE, "a.example", FALSE, DEFAULT_CACHE_TTL, 0)

\* No component is run on its own.
ValidatorIdle ==
    /\ payload = Content("good")
    /\ outcome = NotCalled

RdapIdle ==
    /\ rdap_reply = NoRdapQuery
    /\ rdap_outcome = NotCalled

ThreadsIdle ==
    /\ store = [ttl |-> DEFAULT_CACHE_TTL, cache |-> << >>]
    /\ threads = << >>

RenderIdle ==
    /\ given_info = [k \in {"domain"} |-> <<"a">>]
    /\ given_message = <<"a">>
    /\ rendered = NotCalled

CliIdle ==
    /\ cli_response = [domain |-> "a.example", for_sale |-> FALSE,
                       source |-> ScalarDns, errors |-> << >>,
                       encodable |-> TRUE]
    /\ cli_format = "text"
    /\ cli_exit = NotCalled

ClockIdle ==
    probe = [written |-> FALSE, set_at |-> 0, ttl |-> 0, jumps |-> 0,
             read |-> "none", read_at |-> 0]

UnitIdle ==
    /\ ValidatorIdle /\ RdapIdle /\ ThreadsIdle /\ RenderIdle /\ CliIdle
    /\ ClockIdle

Init == ApiInit /\ UnitIdle

Next ==
    \/ \E domain \in Domains, enable_rdap_check \in BOOLEAN, cache_ttl \in TtlChoices :
          get_domain_sale_status(domain, enable_rdap_check, cache_ttl)
    \/ Tick

Spec == Init /\ [][Next]_vars

(***************************************************************************)
(* The validator on its own: extract_and_validate_record applied to one    *)
(* payload drawn from the payloads below.  Any size goes with any content, *)
(* since json.loads accepts white space around the JSON value.             *)
(***************************************************************************)
SizeChoices == {MAX_TXT_SIZE - 1, MAX_TXT_SIZE, MAX_TXT_SIZE + 1, MAX_TXT_SIZE + 5}

JsonChoices == {"object", "array", "scalar", "trailing", "malformed"}

VersionChoices == {"1", "2"}

PriceChoices ==
    { Price1000, Price250,
      Price1000 \o <<"\n">>,
      <<"u", "s", "d", ":", "1", "0">>,
      <<"U", "S", "D", ":", "1", ".", "2", "3", "4">>,
      <<"U", "S", "D", "1", "0">>,
      <<"U", "S", "D", ":">> }

UrlChoices ==
    { GoodUrl,
      [scheme |-> "HTTPS", netloc |-> "sale.example", path |-> ""],
      [scheme |-> "http", netloc |-> "sale.example", path |-> ""],
      [scheme |-> "javascript", netloc |-> "", path |-> "alert(1)"],
      [scheme |-> "data", netloc |-> "", path |-> "text/html,x"],
      [scheme |-> "https", netloc |-> "", path |-> "sale.example"] }

ContactChoices ==
    { GoodContact,
      [scheme |-> "MAILTO", netloc |-> "", path |-> "o@example.com"],
      [scheme |-> "tel", netloc |-> "", path |-> "+15550100"],
      [scheme |-> "mailto", netloc |-> "", path |-> ""] }

NoExpires == [shape |-> "absent", date |-> <<0, 0, 0>>]

DateText(date) == [shape |-> "date", date |-> date]

ExpiresChoices ==
    { NoExpires,
      DateText(Today),
      DateText(<<2026, 6, 16>>),
      DateText(<<2026, 6, 14>>),
      DateText(<<2025, 12, 31>>),
      DateText(<<2028, 2, 29>>),
      DateText(<<2027, 2, 29>>),
      DateText(<<2026, 13, 1>>),
      DateText(<<0, 1, 1>>),
      [shape |-> "date_nl", date |-> <<2027, 1, 1>>],
      [shape |-> "slashes", date |-> <<2027, 1, 1>>] }

\* "plain": the members as given; "extra": one more key; "missing": no
\* contact; "dup": the price key written twice, the given price last.
ShapeChoices == {"plain", "extra", "missing", "dup"}

MembersOf(v, price, url, contact, expires, shape) ==
    LET contact_m == IF shape = "missing" THEN << >>
                     ELSE << [k |-> "contact", val |-> contact] >>
        expires_m == IF expires.shape = "absent" THEN << >>
                     ELSE << [k |-> "expires", val |-> expires] >>
        first_m == IF shape = "dup"
                   THEN << [k |-> "price", val |-> <<"U", "S", "D", ":", "5">>] >>
                   ELSE << >>
        extra_m == IF shape = "extra" THEN << [k |-> "note", val |-> "x"] >> ELSE << >>
    IN first_m
       \o << [k |-> "v", val |-> v], [k |-> "price", val |-> price],
              [k |-> "url", val |-> url] >>
       \o contact_m \o expires_m \o extra_m

ObjectPayload(members, nonstr) ==
    [bytes |-> 200, utf8 |-> TRUE, tagged |-> TRUE, json |-> "object",
     nonstr |-> nonstr, members |-> members]

\* Every combination of field values and member shapes, all strings.
FieldInputs ==
    { ObjectPayload(MembersOf(v, price, url, contact, expires, shape), {}) :
        v \in VersionChoices, price \in PriceChoices, url \in UrlChoices,
        contact \in ContactChoices, expires \in ExpiresChoices,
        shape \in ShapeChoices }

\* Field values that are right as strings, one of them not a string.
NonStringInputs ==
    { ObjectPayload(MembersOf("1", Price1000, GoodUrl, GoodContact,
                              DateText(<<2026, 6, 16>>), shape), {k}) :
        k \in SeqToSet(ALLOWED_FIELDS), shape \in ShapeChoices }

\* Every size, with and without the tag, around every kind of text.
OuterInputs ==
    { [bytes |-> b, utf8 |-> TRUE, tagged |-> t, json |-> j, nonstr |-> {},
       members |-> IF j = "object" THEN m ELSE << >>] :
        b \in SizeChoices, t \in BOOLEAN, j \in JsonChoices,
        m \in { GoodMembers(Price1000), Content("badurl").members,
                Content("extra").members } }

ValidatorInputs == FieldInputs \cup NonStringInputs \cup OuterInputs

Validate ==
    /\ outcome = NotCalled
    /\ outcome' = extract_and_validate_record(payload)
    /\ UNCHANGED <<payload, rdap_vars, thread_vars, render_vars, cli_vars, clock_vars>>
    /\ UNCHANGED api_vars

ValidatorInit ==
    /\ ApiInit
    /\ payload \in ValidatorInputs
    /\ outcome = NotCalled
    /\ RdapIdle
    /\ ThreadsIdle
    /\ RenderIdle
    /\ CliIdle
    /\ ClockIdle

ValidatorNext == Validate

ValidatorSpec == ValidatorInit /\ [][ValidatorNext]_vars

(***************************************************************************)
(* The RDAP client on its own: check_for_sale_status of a new client       *)
(* against one answer of the network.                                      *)
(***************************************************************************)
StatusChoices ==
    { <<"for-sale">>, <<"active", "for-sale">>, <<"active">>, <<"FOR-SALE">>,
      <<"not-for-sale">>, << >> }

RdapInputs ==
    { [bootstrap |-> b, server |-> s, query |-> q, body |-> body,
       status_kind |-> k, status |-> IF k = "absent" THEN << >> ELSE st] :
        b \in {"200", "500", "Timeout"}, s \in BOOLEAN,
        q \in {"200", "404", "500", "Timeout"},
        body \in {"object", "array", "number", "notjson"},
        k \in {"list", "string", "absent"}, st \in StatusChoices }

CheckRdap ==
    /\ rdap_outcome = NotCalled
    /\ rdap_outcome' = check_for_sale_status(rdap_reply)
    /\ UNCHANGED <<validator_vars, rdap_reply, thread_vars, render_vars, cli_vars, clock_vars>>
    /\ UNCHANGED api_vars

RdapInit ==
    /\ ApiInit
    /\ ValidatorIdle
    /\ rdap_reply \in RdapInputs
    /\ rdap_outcome = NotCalled
    /\ ThreadsIdle
    /\ RenderIdle
    /\ CliIdle
    /\ ClockIdle

RdapNext == CheckRdap

RdapSpec == RdapInit /\ [][RdapNext]_vars

(***************************************************************************)
(* cache.py under concurrent callers.  The Cache holds no lock, so the     *)
(* statements of its methods interleave between callers: one action per    *)
(* statement that reads or writes self._cache.  Time stands still while    *)
(* the callers run.                                                        *)
(***************************************************************************)
\* Concurrent callers of one Cache.
MaxThreads == 2

Threads == 1..MaxThreads

Keys == {"k1", "k2"}

Operations == {"get", "set", "invalidate", "len", "cached"}

\* What an earlier caller left in the Cache: under each key nothing, an
\* entry whose expiry has passed or a live one.
EarlierDicts ==
    UNION { [S -> { [value |-> "old", expiry |-> 0],
                    [value |-> "old", expiry |-> DEFAULT_CACHE_TTL] }] :
            S \in SUBSET Keys }

\* The value caller t passes to set, and the one its func returns.
StoredBy(t) == IF t = 1 THEN "v1" ELSE IF t = 2 THEN "v2" ELSE "v3"

QueriedBy(t) == IF t = 1 THEN "q1" ELSE IF t = 2 THEN "q2" ELSE "q3"

\* A caller before its call.
IdleThread ==
    [op |-> "none", key |-> "k1", pc |-> "idle", value |-> None, expiry |-> 0,
     found |-> "none", queried |-> FALSE, size |-> 0, seen |-> {},
     built |-> << >>, result |-> NotCalled]

\* The call ends with result r (a return or a raise).
Finish(th, r) == [th EXCEPT !.pc = "done", !.result = r]

\* get returns v: to the caller of get, or to the wrapper, which goes on to
\* func when v is None.
Returned(th, v) ==
    IF th.op = "cached" /\ v = None
    THEN [th EXCEPT !.pc = "func"]
    ELSE Finish(th, Ok(v))

beside_threads ==
    <<api_vars, validator_vars, rdap_vars, render_vars, cli_vars, clock_vars>>

\* Caller t enters one method of the Cache, or a function wrapped by
\* cached.
Call(t, op, key) ==
    /\ threads[t].pc = "idle"
    /\ threads' = [threads EXCEPT ![t] =
          [@ EXCEPT !.op = op, !.key = key,
                    !.value = IF op = "set" THEN StoredBy(t) ELSE None,
                    !.pc = CASE op \in {"get", "cached"} -> "get_contains"
                             [] op = "set" -> "set_item"
                             [] op = "invalidate" -> "invalidate_contains"
                             [] op = "len" -> "len_begin"]]
    /\ UNCHANGED store
    /\ UNCHANGED beside_threads

\* get, line 43: key in self._cache.
get_contains(t) ==
    LET th == threads[t]
    IN /\ th.pc = "get_contains"
       /\ threads' = [threads EXCEPT ![t] =
             IF th.key \in DOMAIN store.cache
             THEN [th EXCEPT !.pc = "get_item"]
             ELSE Returned([th EXCEPT !.found = "absent"], None)]
       /\ UNCHANGED store
       /\ UNCHANGED beside_threads

\* get, lines 44-46: self._cache[key], then the comparison with the expiry.
get_item(t) ==
    LET th == threads[t]
    IN /\ th.pc = "get_item"
       /\ threads' = [threads EXCEPT ![t] =
             IF th.key \notin DOMAIN store.cache
             THEN Finish(th, Raise("KeyError", th.key))
             ELSE LET e == store.cache[th.key]
                      got == [th EXCEPT !.value = e.value, !.expiry = e.expiry]
                  IN IF now < e.expiry
                     THEN Returned([got EXCEPT !.found = "live"], e.value)
                     ELSE [got EXCEPT !.found = "expired", !.pc = "get_del"]]
       /\ UNCHANGED store
       /\ UNCHANGED beside_threads

\* get, lines 50-53: del self._cache[key], return None.
get_del(t) ==
    LET th == threads[t]
    IN /\ th.pc = "get_del"
       /\ IF th.key \in DOMAIN store.cache
          THEN /\ store' = [store EXCEPT !.cache = Without(@, th.key)]
               /\ threads' = [threads EXCEPT ![t] = Returned(th, None)]
          ELSE /\ store' = store
               /\ threads' = [threads EXCEPT ![t] =
                                 Finish(th, Raise("KeyError", th.key))]
       /\ UNCHANGED beside_threads

\* wrapper, line 124: the wrapped function runs its query.
func(t) ==
    LET th == threads[t]
    IN /\ th.pc = "func"
       /\ threads' = [threads EXCEPT ![t] =
             [th EXCEPT !.value = QueriedBy(t), !.queried = TRUE,
                        !.pc = "set_item"]]
       /\ UNCHANGED store
       /\ UNCHANGED beside_threads

\* The wrapper without its line 127: the result is returned and not
\* stored.
set_item_not_by_wrapper(t) ==
    LET th == threads[t]
    IN /\ th.pc = "set_item"
       /\ store' = IF th.op = "cached" THEN store
                   ELSE Cache_set(store, th.key, th.value, now)
       /\ threads' = [threads EXCEPT ![t] =
             Finish(th, Ok(IF th.op = "cached" THEN th.value ELSE None))]
       /\ UNCHANGED beside_threads

\* set, lines 63-64, called by a caller or by the wrapper (lines 127-129).
set_item(t) ==
    LET th == threads[t]
    IN /\ th.pc = "set_item"
       /\ store' = Cache_set(store, th.key, th.value, now)
       /\ threads' = [threads EXCEPT ![t] =
             Finish(th, Ok(IF th.op = "cached" THEN th.value ELSE None))]
       /\ UNCHANGED beside_threads

\* invalidate, line 73: key in self._cache.
invalidate_contains(t) ==
    LET th == threads[t]
    IN /\ th.pc = "invalidate_contains"
       /\ threads' = [threads EXCEPT ![t] =
             IF th.key \in DOMAIN store.cache
             THEN [th EXCEPT !.pc = "invalidate_del"]
             ELSE Finish(th, Ok(None))]
       /\ UNCHANGED store
       /\ UNCHANGED beside_threads

\* invalidate, line 74: del self._cache[key].
invalidate_del(t) ==
    LET th == threads[t]
    IN /\ th.pc = "invalidate_del"
       /\ IF th.key \in DOMAIN store.cache
          THEN /\ store' = [store EXCEPT !.cache = Without(@, th.key)]
               /\ threads' = [threads EXCEPT ![t] = Finish(th, Ok(None))]
          ELSE /\ store' = store
               /\ threads' = [threads EXCEPT ![t] =
                                 Finish(th, Raise("KeyError", th.key))]
       /\ UNCHANGED beside_threads

\* __len__, lines 90-92: the iteration over self._cache.items() starts.
len_begin(t) ==
    LET th == threads[t]
    IN /\ th.pc = "len_begin"
       /\ threads' = [threads EXCEPT ![t] =
             [th EXCEPT !.size = Cardinality(DOMAIN store.cache),
                        !.seen = {}, !.built = << >>, !.pc = "len_next"]]
       /\ UNCHANGED store
       /\ UNCHANGED beside_threads

\* __len__, lines 92-95: one step of the iteration.  The iterator raises
\* RuntimeError when the dict has changed size since it started; an item
\* not yet expired goes to the new dict.  Items come in the order the dict
\* holds them, which is any order here.
len_next(t) ==
    LET th == threads[t]
        rest == (DOMAIN store.cache) \ th.seen
    IN /\ th.pc = "len_next"
       /\ IF Cardinality(DOMAIN store.cache) # th.size
          THEN threads' = [threads EXCEPT ![t] =
                  Finish(th, Raise("RuntimeError",
                                   "dictionary changed size during iteration"))]
          ELSE IF rest = {}
          THEN threads' = [threads EXCEPT ![t] = [th EXCEPT !.pc = "len_assign"]]
          ELSE \E k \in rest :
                  threads' = [threads EXCEPT ![t] =
                     [th EXCEPT !.seen = @ \cup {k},
                                !.built = IF now < store.cache[k].expiry
                                          THEN With(@, k, store.cache[k])
                                          ELSE @]]
       /\ UNCHANGED store
       /\ UNCHANGED beside_threads

\* __len__, line 92: self._cache = the new dict.
len_assign(t) ==
    LET th == threads[t]
    IN /\ th.pc = "len_assign"
       /\ store' = [store EXCEPT !.cache = th.built]
       /\ threads' = [threads EXCEPT ![t] = [th EXCEPT !.pc = "len_return"]]
       /\ UNCHANGED beside_threads

\* __len__, line 98: return len(self._cache).
len_return(t) ==
    LET th == threads[t]
    IN /\ th.pc = "len_return"
       /\ threads' = [threads EXCEPT ![t] =
             Finish(th, Ok(Cardinality(DOMAIN store.cache)))]
       /\ UNCHANGED store
       /\ UNCHANGED beside_threads

ThreadsInit ==
    /\ ApiInit
    /\ ValidatorIdle
    /\ RdapIdle
    /\ RenderIdle
    /\ CliIdle
    /\ ClockIdle
    /\ store \in { [ttl |-> DEFAULT_CACHE_TTL, cache |-> d] : d \in EarlierDicts }
    /\ threads = [t \in Threads |-> IdleThread]

ThreadsNext ==
    \E t \in Threads :
        \/ \E op \in Operations, key \in Keys : Call(t, op, key)
        \/ get_contains(t)
        \/ get_item(t)
        \/ get_del(t)
        \/ func(t)
        \/ set_item(t)
        \/ invalidate_contains(t)
        \/ invalidate_del(t)
        \/ len_begin(t)
        \/ len_next(t)
        \/ len_assign(t)
        \/ len_return(t)

ThreadsSpec == ThreadsInit /\ [][ThreadsNext]_vars

(***************************************************************************)
(* renderer.py: HTMLRenderer.  A str is a sequence of characters; the      *)
(* literal pieces of the f-strings are single symbols, so the output is    *)
(* the sequence of literal pieces and characters in the order written.     *)
(***************************************************************************)
Literal ==
    [ h2_open |-> "<h2>Domain for Sale: ", h2_close |-> "</h2>",
      h2_bare |-> "<h2>Domain for Sale</h2>",
      info_open |-> "<div class=\"domain-sale-info\">",
      price_open |-> "<div class=\"sale-price\"><strong>Price:</strong> ",
      contact_open |-> "<div class=\"sale-contact\"><strong>Contact:</strong> ",
      a_open |-> "<a href=\"", a_text |-> "\">", a_close |-> "</a>",
      url_open |-> "<div class=\"sale-url\"><strong>More Info:</strong> ",
      a_blank |-> "\" target=\"_blank\" rel=\"noopener noreferrer\">",
      expires_open |-> "<div class=\"sale-expires\"><strong>Expires:</strong> ",
      error_open |-> "<div class=\"domain-sale-error\">",
      div_close |-> "</div>", newline |-> "\n" ]

Literals == { Literal[k] : k \in DOMAIN Literal }

\* The characters html.escape replaces.
SpecialChars == {"&", "<", ">", "\"", "'"}

Entity(c) ==
    CASE c = "&" -> <<"&", "a", "m", "p", ";">>
      [] c = "<" -> <<"&", "l", "t", ";">>
      [] c = ">" -> <<"&", "g", "t", ";">>
      [] c = "\"" -> <<"&", "q", "u", "o", "t", ";">>
      [] c = "'" -> <<"&", "#", "x", "2", "7", ";">>

\* html.escape(text, quote=True).
RECURSIVE _escape(_)
_escape(text) ==
    IF text = << >> THEN << >>
    ELSE (IF Head(text) \in SpecialChars
          THEN Entity(Head(text)) ELSE <<Head(text)>>)
         \o _escape(Tail(text))

startswith(s, prefix) ==
    Len(s) >= Len(prefix) /\ SubSeq(s, 1, Len(prefix)) = prefix

Mailto == <<"m", "a", "i", "l", "t", "o", ":">>

\* sale_info.get(k): a key that is missing, None and "" are all falsy.
InfoGet(sale_info, k) ==
    IF k \in DOMAIN sale_info THEN sale_info[k] ELSE << >>

\* "\n".join(html_output)
RECURSIVE join(_)
join(lines) ==
    IF lines = << >> THEN << >>
    ELSE IF Len(lines) = 1 THEN Head(lines)
    ELSE Head(lines) \o <<Literal.newline>> \o join(Tail(lines))

render_sale_info(sale_info) ==
    LET domain == _escape(sale_info["domain"])
        price == _escape(InfoGet(sale_info, "price"))
        contact == _escape(InfoGet(sale_info, "contact"))
        email == _escape(SubSeq(contact, 8, Len(contact)))
        url == _escape(InfoGet(sale_info, "url"))
        expires == _escape(InfoGet(sale_info, "expires"))
        head == IF "domain" \in DOMAIN sale_info
                THEN << <<Literal.h2_open>> \o domain \o <<Literal.h2_close>> >>
                ELSE << <<Literal.h2_bare>> >>
        price_line == IF InfoGet(sale_info, "price") # << >>
                      THEN << <<Literal.price_open>> \o price \o <<Literal.div_close>> >>
                      ELSE << >>
        contact_line ==
            IF InfoGet(sale_info, "contact") = << >> THEN << >>
            ELSE IF startswith(contact, Mailto)
            THEN << <<Literal.contact_open, Literal.a_open>> \o contact
                    \o <<Literal.a_text>> \o email
                    \o <<Literal.a_close, Literal.div_close>> >>
            ELSE << <<Literal.contact_open>> \o contact \o <<Literal.div_close>> >>
        url_line == IF InfoGet(sale_info, "url") # << >>
                    THEN << <<Literal.url_open, Literal.a_open>> \o url
                            \o <<Literal.a_blank>> \o url
                            \o <<Literal.a_close, Literal.div_close>> >>
                    ELSE << >>
        expires_line == IF InfoGet(sale_info, "expires") # << >>
                        THEN << <<Literal.expires_open>> \o expires
                                \o <<Literal.div_close>> >>
                        ELSE << >>
    IN join(head \o << <<Literal.info_open>> >> \o price_line \o contact_line
            \o url_line \o expires_line \o << <<Literal.div_close>> >>)

render_error(message) ==
    <<Literal.error_open>> \o _escape(message) \o <<Literal.div_close>>

\* What a browser reads: html.unescape of a run of characters.
RECURSIVE unescape(_)
unescape(s) ==
    IF s = << >> THEN << >>
    ELSE LET hit == {c \in SpecialChars : startswith(s, Entity(c))}
         IN IF hit = {}
            THEN <<Head(s)>> \o unescape(Tail(s))
            ELSE LET c == CHOOSE x \in hit : TRUE
                 IN <<c>> \o unescape(SubSeq(s, Len(Entity(c)) + 1, Len(s)))

\* The markup a browser sees in an output: its literal pieces, and every
\* character that opens or closes a tag or an attribute value.
RECURSIVE Markup(_)
Markup(out) ==
    IF out = << >> THEN << >>
    ELSE (IF Head(out) \in Literals \cup {"<", ">", "\"", "'"}
          THEN <<Head(out)>> ELSE << >>) \o Markup(Tail(out))

\* The runs of characters between the literal pieces, in order; empty runs
\* are left out.
RECURSIVE Runs(_, _)
Runs(out, run) ==
    IF out = << >> THEN (IF run = << >> THEN << >> ELSE <<run>>)
    ELSE IF Head(out) \in Literals
    THEN (IF run = << >> THEN << >> ELSE <<run>>) \o Runs(Tail(out), << >>)
    ELSE Runs(Tail(out), Append(run, Head(out)))

\* Field contents: plain, each special character, a tag, an entity.
Texts ==
    { <<"a">>, <<"&">>, <<"<">>, <<">">>, <<"\"">>, <<"'">>,
      <<"<", "a", ">">>, <<"&", "l", "t", ";">> }

SaleInfos ==
    { [k \in keys |->
          CASE k = "domain" -> d [] k = "price" -> p [] k = "contact" -> c
            [] k = "url" -> u [] k = "expires" -> e] :
        keys \in { {"domain", "price", "contact", "url", "expires"},
                   {"price", "contact", "url", "expires"} },
        d \in Texts,
        p \in { << >>, <<"a">>, <<"<">> },
        c \in { << >> } \cup { Mailto \o t : t \in Texts } \cup Texts,
        u \in { << >>, <<"a">>, <<"\"">> },
        e \in { << >>, <<"'">> } }

beside_render ==
    <<api_vars, validator_vars, rdap_vars, thread_vars, cli_vars, clock_vars>>

RenderSale ==
    /\ rendered = NotCalled
    /\ rendered' = [tag |-> "sale", out |-> render_sale_info(given_info)]
    /\ UNCHANGED <<given_info, given_message>>
    /\ UNCHANGED beside_render

RenderError ==
    /\ rendered = NotCalled
    /\ rendered' = [tag |-> "error", out |-> render_error(given_message)]
    /\ UNCHANGED <<given_info, given_message>>
    /\ UNCHANGED beside_render

RendererInit ==
    /\ ApiInit
    /\ ValidatorIdle
    /\ RdapIdle
    /\ ThreadsIdle
    /\ CliIdle
    /\ ClockIdle
    /\ given_info \in SaleInfos
    /\ given_message \in {<<"a">>, <<"<", "a", ">">>, <<"&", "l", "t", ";">>}
    /\ rendered = NotCalled

RendererNext == RenderSale \/ RenderError

RendererSpec == RendererInit /\ [][RendererNext]_vars

(***************************************************************************)
(* cli.py: main, given the Response get_domain_sale_status returned.       *)
(* encodable tells whether the text main prints for the Response can be    *)
(* encoded for sys.stdout: a url such as "https://x/\ud800" passes the     *)
(* validator and cannot.                                                   *)
(***************************************************************************)
Formats == {"text", "json", "html"}

\* print of lines 113, 115 and 117.  json.dumps writes every character
\* outside ASCII as an escape, so its text can always be encoded.
print(response, format) ==
    IF format # "json" /\ ~response.encodable
    THEN Raise("UnicodeEncodeError", "surrogates not allowed")
    ELSE Ok(None)

main(response, format) ==
    IF print(response, format).tag = "raise" THEN 1
    ELSE IF response.errors # << >> THEN 1 ELSE 0

\* The Responses get_domain_sale_status returns: for sale with a list as
\* source, not for sale with the default source; errors in both cases.
CliResponses ==
    { r \in [domain : Domains, for_sale : BOOLEAN,
             source : {ScalarDns, ListOf(<<"dns">>), ListOf(<<"dns", "rdap">>)},
             errors : { << >>, <<"Invalid URL">>,
                        <<"Invalid URL", "RDAP check failed">> },
             encodable : BOOLEAN] : r.for_sale = r.source.list }

RunMain ==
    /\ cli_exit = NotCalled
    /\ cli_exit' = Ok(main(cli_response, cli_format))
    /\ UNCHANGED <<cli_response, cli_format>>
    /\ UNCHANGED <<api_vars, validator_vars, rdap_vars, thread_vars, render_vars,
                   clock_vars>>

CliInit ==
    /\ ApiInit
    /\ ValidatorIdle
    /\ RdapIdle
    /\ ThreadsIdle
    /\ RenderIdle
    /\ ClockIdle
    /\ cli_response \in CliResponses
    /\ cli_format \in Formats
    /\ cli_exit = NotCalled

CliNext == RunMain

CliSpec == CliInit /\ [][CliNext]_vars

(***************************************************************************)
(* cache.py against the clock.  time.time() is the system's wall clock:    *)
(* it advances with the time that passes and is moved, forward or          *)
(* backward, when the system clock is set.  now is the wall clock; the     *)
(* time that has passed is ticks * TickStep.                               *)
(***************************************************************************)
\* Times the system clock is set in one behaviour.
MaxJumps == 1

Elapsed == ticks * TickStep

JumpSteps == {-2, -1, 1, 2}

\* The system clock is set.
ClockJump ==
    /\ probe.jumps < MaxJumps
    /\ \E k \in JumpSteps : now' = now + k * TickStep
    /\ probe' = [probe EXCEPT !.jumps = @ + 1]
    /\ UNCHANGED <<ticks, calls, dns_cache, rdap_cache, heap, trust, last>>
    /\ UNCHANGED <<validator_vars, rdap_vars, thread_vars, render_vars, cli_vars>>

\* Cache.set of one entry, once.
ClockSet ==
    /\ ~probe.written
    /\ store' = Cache_set(store, "k1", "v1", now)
    /\ probe' = [probe EXCEPT !.written = TRUE, !.set_at = Elapsed,
                               !.ttl = store.ttl]
    /\ UNCHANGED threads
    /\ UNCHANGED <<api_vars, validator_vars, rdap_vars, render_vars, cli_vars>>

\* Cache.get of the entry.
ClockGet ==
    LET got == Cache_get(store, "k1", now)
    IN /\ probe.written
       /\ store' = got.cache
       /\ probe' = [probe EXCEPT !.read = IF got.hit THEN "hit" ELSE "miss",
                                  !.read_at = Elapsed]
       /\ UNCHANGED threads
       /\ UNCHANGED <<api_vars, validator_vars, rdap_vars, render_vars, cli_vars>>

ClockInit ==
    /\ ApiInit
    /\ ValidatorIdle
    /\ RdapIdle
    /\ RenderIdle
    /\ CliIdle
    /\ ClockIdle
    /\ store \in { [ttl |-> ttl, cache |-> << >>] : ttl \in TtlChoices }
    /\ threads = << >>

ClockNext == Tick \/ ClockJump \/ ClockSet \/ ClockGet

ClockSpec == ClockInit /\ [][ClockNext]_vars

(***************************************************************************)
(* Properties.  What the formulas below read of a payload is stated here   *)
(* gate by gate, apart from the validator's pipeline.                      *)
(***************************************************************************)
SizeGate(id) == Content(id).bytes <= MAX_TXT_SIZE

PrefixGate(id) == Content(id).tagged

JsonGate(id) == Content(id).json = "object"

SchemaGate(id) ==
    LET keys == {Content(id).members[i].k : i \in 1..Len(Content(id).members)}
    IN /\ SeqToSet(REQUIRED_FIELDS) \subseteq keys
       /\ keys \subseteq SeqToSet(ALLOWED_FIELDS)

FieldGate(id) == _validate_fields(json_loads(Content(id)).val).tag = "ok"

PassesEveryGate(id) ==
    SizeGate(id) /\ PrefixGate(id) /\ JsonGate(id) /\ SchemaGate(id) /\ FieldGate(id)

\* The payload makes the validator raise: it is too long, or it carries the
\* tag and fails a later gate.
FailsAGate(id) == ~SizeGate(id) \/ (PrefixGate(id) /\ ~PassesEveryGate(id))

\* Index of the first payload of txt that passes every gate, 0 if none.
FirstValid(txt) ==
    LET ok == {i \in 1..Len(txt) : PassesEveryGate(txt[i])}
    IN IF ok = {} THEN 0 ELSE CHOOSE i \in ok : \A j \in ok : i <= j

OptEq(a, b) == a.some = b.some /\ (a.some => a.v = b.v)

\* Two Responses, as returned, are equal field by field.
SameResponse(r1, r2) ==
    /\ r1.domain = r2.domain
    /\ r1.for_sale = r2.for_sale
    /\ OptEq(r1.price, r2.price)
    /\ OptEq(r1.url, r2.url)
    /\ OptEq(r1.contact, r2.contact)
    /\ OptEq(r1.expires, r2.expires)
    /\ r1.source = r2.source
    /\ r1.errors = r2.errors

\* The step is a get_domain_sale_status call.
IsCall == calls' = calls + 1

\* C1: a Response with for_sale = true comes from a lookup one of whose TXT
\* payloads passes every validator gate (size, prefix, JSON, schema, fields)
\* and, when enable_rdap_check is true, whose RDAP check returned true.
C1_ForSaleNeedsRecordAndRdap ==
    (last.called /\ last.for_sale) =>
        /\ \E i \in 1..Len(last.txt_records) : PassesEveryGate(last.txt_records[i])
        /\ last.enable_rdap_check => last.rdap_result = "true"

C1_Witness ==
    /\ last.called /\ last.for_sale /\ last.enable_rdap_check
    /\ last.rdap_queries = 1
    /\ last.accepted = 3

\* C2: TXT payloads reach the caller only from an answer that carries the
\* authenticated-data signal, so a Response with for_sale = true never rests
\* on an unauthenticated answer.
C2_OnlyAuthenticatedAnswers ==
    last.called =>
        /\ (last.dns_result = "ok" /\ Len(last.txt_records) > 0) => last.trust = "ad"
        /\ last.for_sale => last.trust = "ad"

\* C3: of two consecutive calls for the same domain with the same options,
\* the second made before the TTL has elapsed since a first whose lookups
\* succeeded, the Responses are equal field by field and the two calls
\* together make at most one DNS query and at most one RDAP query.
C3_CacheIdempotence ==
    [][(/\ IsCall
        /\ last.called
        /\ last'.domain = last.domain
        /\ last'.enable_rdap_check = last.enable_rdap_check
        /\ last'.cache_ttl = last.cache_ttl
        /\ now < last.at + last.cache_ttl
        /\ last.dns_result = "ok"
        /\ last.rdap_result # "raise")
       => /\ SameResponse(last, last')
          /\ last.dns_queries + last'.dns_queries <= 1
          /\ last.rdap_queries + last'.rdap_queries <= 1]_vars

\* A failure of the lookup as the call saw it: of the resolver, of the
\* validator on a payload it examined, or of the RDAP client.
ValidatorFailed(r) == \E i \in 1..r.examined : FailsAGate(r.txt_records[i])

SomethingFailed(r) ==
    r.dns_result = "raise" \/ ValidatorFailed(r) \/ r.rdap_result = "raise"

\* C4 as stated: the call never raises, and whenever the resolver, the
\* validator or the RDAP client failed, errors holds the failure and
\* for_sale is false.
C4_FailureMeansNotForSale ==
    last.called =>
        /\ last.raised = None
        /\ SomethingFailed(last) => (Len(last.errors) > 0 /\ ~last.for_sale)

\* C4, amended: the call never raises; every failure of the resolver, the
\* validator or the RDAP client is a string in errors; for_sale is false
\* after a resolver failure, after an RDAP failure and when no payload
\* validated (a validator failure on one payload does not stop a later
\* payload from making the domain for sale).
C4_NeverRaises ==
    last.called =>
        /\ last.raised = None
        /\ last.dns_result = "raise" => (Len(last.errors) = 1 /\ ~last.for_sale)
        /\ last.rdap_result = "raise" =>
              (last.errors[Len(last.errors)] = "RDAP check failed" /\ ~last.for_sale)
        /\ Len(last.errors) >=
              Cardinality({i \in 1..last.examined : FailsAGate(last.txt_records[i])})
        /\ ValidatorFailed(last) => Len(last.errors) > 0
        /\ (ValidatorFailed(last) /\ last.accepted = 0) => ~last.for_sale

C4_Witness ==
    /\ last.called
    /\ last.raised = None
    /\ last.errors = <<"Unexpected error">>
    /\ ~last.for_sale

\* C5: with enable_rdap_check = true, a Response with for_sale = true has
\* "rdap" in its source.
C5_RdapInSource ==
    (last.called /\ last.enable_rdap_check /\ last.for_sale) =>
        (last.source.list /\ "rdap" \in SeqToSet(last.source.items))

C5_Witness ==
    /\ last.called /\ last.enable_rdap_check /\ last.for_sale
    /\ last.rdap_result = "true"
    /\ last.source.list

\* C6: a for-sale Response has source exactly ["dns"] when the call had RDAP
\* disabled and exactly ["dns", "rdap"] when it had RDAP enabled.
C6_SourceExact ==
    (last.called /\ last.for_sale) =>
        last.source = ListOf(IF last.enable_rdap_check
                             THEN <<"dns", "rdap">> ELSE <<"dns">>)

\* The messages of the payloads of txt[1..stop] that fail a gate, in order.
FailureMessages(txt, stop) ==
    LET failing == SelectSeq(SubSeq(txt, 1, stop), FailsAGate)
    IN [j \in 1..Len(failing) |-> Validated[failing[j]].msg]

\* errors without the entry of the RDAP step.
ScanErrors(r) ==
    IF r.rdap_result = "raise" THEN SubSeq(r.errors, 1, Len(r.errors) - 1) ELSE r.errors

\* C7: the payloads are scanned in the resolver's order and the first one
\* that validates is used: each payload that fails validation before it adds
\* exactly one string to errors, in order, and no payload after it is
\* examined.
C7_FirstValidatingRecord ==
    (last.called /\ last.dns_result = "ok") =>
        LET txt == last.txt_records
            first == FirstValid(txt)
            stop == IF first = 0 THEN Len(txt) ELSE first
        IN /\ last.accepted = first
           /\ last.examined = stop
           /\ ScanErrors(last) = FailureMessages(txt, stop)
           /\ last.for_sale =>
                 /\ first # 0
                 /\ last.price = Some(json_loads(Content(txt[first])).val.get["price"])

C7_Witness ==
    /\ last.called /\ last.for_sale
    /\ Len(last.txt_records) = 4
    /\ last.accepted = 3
    /\ last.examined = 3
    /\ Len(last.errors) = 1

\* C8: with enable_rdap_check = true and a validated DNS record, an RDAP
\* check that returns false gives for_sale = false and adds nothing to
\* errors; an RDAP check that fails with RDAPError or Timeout gives for_sale
\* = false and appends exactly one error.
C8_RdapFalseOrFailed ==
    (last.called /\ last.enable_rdap_check /\ last.accepted # 0) =>
        LET scanned == FailureMessages(last.txt_records, last.accepted)
        IN /\ last.rdap_result = "false" =>
                 (~last.for_sale /\ last.errors = scanned)
           /\ last.rdap_result = "raise" =>
                 (~last.for_sale /\ last.errors = Append(scanned, "RDAP check failed"))

C8_Witness ==
    /\ last.called /\ last.enable_rdap_check /\ last.accepted # 0
    /\ last.rdap_result = "raise"
    /\ last.rdap_queries = 1
    /\ ~last.for_sale

\* C9: a wrapped lookup that raises writes nothing to the cache: after the
\* DNS or RDAP lookup of a call failed, the cache has no entry for its key,
\* and the next call for the same key queries the network again.
C9_FailuresNotCached ==
    [][/\ (IsCall /\ last'.dns_result = "raise") =>
             dns_key(last'.domain) \notin DOMAIN dns_cache'.cache
       /\ (IsCall /\ last'.rdap_result = "raise") =>
             rdap_key(last'.domain) \notin DOMAIN rdap_cache'.cache
       /\ (IsCall /\ last.called /\ last.dns_result = "raise"
                  /\ last'.domain = last.domain) =>
             last'.dns_queries = 1
       /\ (IsCall /\ last.called /\ last.rdap_result = "raise"
                  /\ last'.domain = last.domain /\ last'.rdap_before # "unused") =>
             last'.rdap_queries = 1]_vars

C9_Witness ==
    /\ last.called
    /\ last.dns_before = "expired"
    /\ last.dns_result = "raise"
    /\ dns_key(last.domain) \notin DOMAIN dns_cache.cache

\* C10: a get at or after an entry's expiry instant is a miss and removes
\* the entry, a get before it returns the value stored; so a call made once
\* the entry has expired queries the network again, and a call made before
\* does not.
C10_ExpiryIsExclusive ==
    [][IsCall =>
         /\ LET key == dns_key(last'.domain)
            IN key \in DOMAIN dns_cache.cache =>
                 IF now >= dns_cache.cache[key].expiry
                 THEN /\ last'.dns_queries = 1
                      /\ key \in DOMAIN dns_cache'.cache =>
                            /\ last'.dns_result = "ok"
                            /\ dns_cache'.cache[key].expiry = now + dns_cache'.ttl
                 ELSE /\ last'.dns_queries = 0
                      /\ last'.txt_records = dns_cache.cache[key].value.txt_records
                      /\ dns_cache'.cache[key] = dns_cache.cache[key]
         /\ LET key == rdap_key(last'.domain)
            IN (key \in DOMAIN rdap_cache.cache /\ last'.rdap_before # "unused") =>
                 IF now >= rdap_cache.cache[key].expiry
                 THEN /\ last'.rdap_queries = 1
                      /\ key \in DOMAIN rdap_cache'.cache =>
                            /\ last'.rdap_result # "raise"
                            /\ rdap_cache'.cache[key].expiry = now + rdap_cache'.ttl
                 ELSE /\ last'.rdap_queries = 0
                      /\ last'.rdap_result =
                            (IF rdap_cache.cache[key].value THEN "true" ELSE "false")
                      /\ rdap_cache'.cache[key] = rdap_cache.cache[key]]_vars

C10_Witness ==
    /\ last.called
    /\ last.dns_before = "expired"
    /\ last.dns_queries = 1
    /\ last.dns_result = "ok"
    /\ last.at = dns_cache.cache[dns_key(last.domain)].expiry - dns_cache.ttl
    /\ last.at > 0

(***************************************************************************)
(* Properties of the validator on its own.                                 *)
(***************************************************************************)
Called == outcome # NotCalled

Raised(exc) == outcome.tag = "raise" /\ outcome.exc = exc

\* The validator returned the record (not "no record").
Accepted == outcome.tag = "ok" /\ outcome.val.kind = "dict"

MemberKeys(p) == {p.members[i].k : i \in 1..Len(p.members)}

\* The value written for key k (the last one, if k is written twice).
Written(p, k) == LastVal(p.members, k)

\* A payload of at most 255 bytes that starts with the tag and whose body
\* is a JSON object.
IsObjectPayload(p) == p.bytes <= MAX_TXT_SIZE /\ p.tagged /\ p.json = "object"

InSchema(p) ==
    /\ IsObjectPayload(p)
    /\ SeqToSet(REQUIRED_FIELDS) \subseteq MemberKeys(p)
    /\ MemberKeys(p) \subseteq SeqToSet(ALLOWED_FIELDS)

\* C11: extract_and_validate_record raises SizeExceededError for every
\* payload longer than 255 bytes, with or without the version tag, and
\* never for a payload of 255 bytes or fewer.
C11_SizeGateIsTight ==
    Called => (Raised("SizeExceededError") <=> payload.bytes > MAX_TXT_SIZE)

C11_Witness ==
    /\ Raised("SizeExceededError")
    /\ ~payload.tagged
    /\ payload.bytes = MAX_TXT_SIZE + 1

\* C12: a tagged payload of at most 255 bytes whose body is a JSON object
\* with a key outside {v, price, url, contact, expires}, or without one of
\* v, price, url, contact, raises SchemaValidationError, whatever its field
\* values are.
C12_ClosedSchema ==
    (Called /\ IsObjectPayload(payload) /\ ~InSchema(payload)) =>
        Raised("SchemaValidationError")

C12_Witness ==
    /\ Raised("SchemaValidationError")
    /\ IsObjectPayload(payload)
    /\ "note" \in MemberKeys(payload)
    /\ SeqToSet(REQUIRED_FIELDS) \subseteq MemberKeys(payload)
    /\ Written(payload, "v") = "2"
    /\ Written(payload, "url").scheme = "javascript"

\* C13: a record that passes the schema gate raises FieldValidationError
\* unless the scheme of url, as written, is exactly the lowercase https and
\* the scheme of contact, as written, is exactly the lowercase mailto.
C13_SchemeClosure ==
    (Called /\ InSchema(payload)) =>
        LET url_ok == /\ "url" \notin payload.nonstr
                      /\ Written(payload, "url").scheme = "https"
            contact_ok == /\ "contact" \notin payload.nonstr
                          /\ Written(payload, "contact").scheme = "mailto"
        IN ~(url_ok /\ contact_ok) => Raised("FieldValidationError")

HasDuplicateKey(p) == Len(p.members) # Cardinality(MemberKeys(p))

\* C14: a payload that starts with the tag (and is within the size limit)
\* raises SchemaValidationError when the text after the tag is not strict
\* JSON, has trailing garbage, is a JSON value other than an object, or is
\* an object in which a key occurs more than once.
C14_StrictJson ==
    (Called /\ payload.tagged /\ payload.bytes <= MAX_TXT_SIZE) =>
        ((payload.json # "object" \/ HasDuplicateKey(payload)) =>
            Raised("SchemaValidationError"))

\* d names a day of the calendar.
RealDate(d) == d[1] >= 1 /\ d[2] \in 1..12 /\ d[3] \in 1..DaysIn(d[1], d[2])

\* The record is in the schema, writes no key twice, and its v, price, url
\* and contact are right.
OtherwiseValid(p) ==
    /\ InSchema(p)
    /\ ~HasDuplicateKey(p)
    /\ p.nonstr \cap SeqToSet(REQUIRED_FIELDS) = {}
    /\ Written(p, "v") = "1"
    /\ PriceBody(Written(p, "price"))
    /\ Written(p, "url").scheme = "https" /\ Written(p, "url").netloc # ""
    /\ Written(p, "contact").scheme = "mailto" /\ Written(p, "contact").path # ""

\* C16: an otherwise valid record with an expires field is accepted, with
\* expires returned unchanged, exactly when expires has the form YYYY-MM-DD,
\* names a real calendar date and that date is today or later; any other
\* expires raises FieldValidationError.
C16_ExpiresRule ==
    (Called /\ OtherwiseValid(payload) /\ "expires" \in MemberKeys(payload)) =>
        LET expires == Written(payload, "expires")
            good == /\ "expires" \notin payload.nonstr
                    /\ expires.shape = "date"
                    /\ RealDate(expires.date)
                    /\ ~DateBefore(expires.date, Today)
        IN IF good
           THEN Accepted /\ outcome.val.get["expires"] = expires
           ELSE Raised("FieldValidationError")

\* C17: every accepted record has v equal to the string "1" and a price
\* made of three uppercase letters, a colon, digits and at most one dot with
\* one or two digits after it, and nothing else; any other v or price
\* raises FieldValidationError.
C17_VersionAndPrice ==
    (Called /\ InSchema(payload)) =>
        LET v_ok == "v" \notin payload.nonstr /\ Written(payload, "v") = "1"
            price_ok == /\ "price" \notin payload.nonstr
                        /\ PriceBody(Written(payload, "price"))
        IN /\ Accepted => (v_ok /\ price_ok)
           /\ ~(v_ok /\ price_ok) => Raised("FieldValidationError")

(***************************************************************************)
(* Properties of the lookup pipeline, continued.                           *)
(***************************************************************************)
\* C15: for a payload of at most 255 bytes that does not start with the
\* version tag the validator returns no record without raising, and
\* get_domain_sale_status adds no entry to errors for it and goes on to the
\* next payload.
C15_UntaggedIsSkipped ==
    (last.called /\ last.dns_result = "ok") =>
        LET txt == last.txt_records
            seen == 1..last.examined
            untagged == {i \in seen : SizeGate(txt[i]) /\ ~PrefixGate(txt[i])}
        IN /\ \A i \in untagged :
                 /\ Validated[txt[i]] = Ok(NoRecord)
                 /\ last.accepted # i
                 /\ i < Len(txt) => last.examined > i
           /\ Len(ScanErrors(last)) =
                 Cardinality({i \in seen \ untagged : Validated[txt[i]].tag = "raise"})

C15_Witness ==
    /\ last.called
    /\ Len(last.txt_records) > 1
    /\ ~PrefixGate(last.txt_records[1])
    /\ last.examined = 3
    /\ last.accepted = 3
    /\ Len(last.errors) = 1

\* C18: when the DNS answer holds a single TXT payload longer than 255
\* bytes, the Response has for_sale = false and errors contains the
\* SizeExceeded error for that payload.
C18_OversizeIsReported ==
    (/\ last.called
     /\ last.answer.kind = "answer"
     /\ Len(last.answer.rdatas) = 1
     /\ Content(last.answer.rdatas[1]).utf8
     /\ ~SizeGate(last.answer.rdatas[1])) =>
        /\ ~last.for_sale
        /\ \E i \in 1..Len(last.errors) :
              last.errors[i] = Validated[last.answer.rdatas[1]].msg

\* The call's TXT query timed out, or failed validation or in another way
\* below the resolver: the lookup fails with Timeout in the first case and
\* with DNSSECValidationError in the others.
DnsFailure(r) ==
    r.called /\ r.answer.kind \in {"Timeout", "ValidationFailure", "OSError"}

\* C19: when the DNS lookup fails with DNSSECValidationError or with
\* Timeout, the Response has for_sale = false, exactly one entry in errors
\* that names the failure, price, url, contact and expires all null, no
\* payload validated and no RDAP query made, enable_rdap_check or not.
C19_DnsFailureResponse ==
    DnsFailure(last) =>
        /\ ~last.for_sale
        /\ last.raised = None
        /\ last.errors =
              << IF last.answer.kind = "Timeout"
                 THEN "Timeout" ELSE "DNSSEC validation failed" >>
        /\ last.price = Nothing /\ last.url = Nothing
        /\ last.contact = Nothing /\ last.expires = Nothing
        /\ last.examined = 0 /\ last.accepted = 0
        /\ last.rdap_queries = 0 /\ last.rdap_result = "skipped"

C19_Witness ==
    /\ DnsFailure(last)
    /\ last.enable_rdap_check
    /\ last.answer.kind = "Timeout"
    /\ Len(last.errors) = 1

(***************************************************************************)
(* Properties of the RDAP client on its own.                               *)
(***************************************************************************)
\* C20: check_for_sale_status returns true exactly when the RDAP response
\* is HTTP 200 and its top-level status member is an array that contains
\* the string for-sale; a 200 response (a JSON object) with other status
\* values, a status that is not an array or no status returns false; a
\* response that is not 200 fails with RDAPError.
C20_RdapDecision ==
    (rdap_outcome # NotCalled) =>
        LET asked == rdap_reply.bootstrap = "200" /\ rdap_reply.server
            object == asked /\ rdap_reply.query = "200" /\ rdap_reply.body = "object"
            listed == /\ rdap_reply.status_kind = "list"
                      /\ "for-sale" \in SeqToSet(rdap_reply.status)
        IN /\ (rdap_outcome.tag = "ok" /\ rdap_outcome.val) <=> (object /\ listed)
           /\ (object /\ ~listed) => (rdap_outcome.tag = "ok" /\ ~rdap_outcome.val)
           /\ (asked /\ rdap_reply.query # "200") =>
                 (rdap_outcome.tag = "raise" /\ rdap_outcome.exc = "RDAPError")

C20_Witness ==
    /\ rdap_outcome.tag = "ok"
    /\ rdap_outcome.val
    /\ rdap_reply.status = <<"active", "for-sale">>

(***************************************************************************)
(* Properties of the Cache under concurrent callers.                       *)
(***************************************************************************)
AllDone == \A t \in Threads : threads[t].pc = "done"

Raises(t) == threads[t].result.tag = "raise"

\* Callers t and u both ran get for one key and both found its entry
\* expired.
BothFoundExpired(t, u) ==
    /\ t # u
    /\ threads[t].op = "get" /\ threads[u].op = "get"
    /\ threads[t].key = threads[u].key
    /\ threads[t].found = "expired" /\ threads[u].found = "expired"
    /\ threads[t].pc = "done" /\ threads[u].pc = "done"

Missed(t) == threads[t].result = Ok(None)

\* Caller t ran set while every other caller ran get or len.
SetBesideReaders(t) ==
    /\ threads[t].op = "set"
    /\ \A u \in Threads \ {t} : threads[u].op \in {"get", "len"}

Holds(key, value) ==
    key \in DOMAIN store.cache /\ store.cache[key].value = value

\* C21: the Cache stays consistent under any interleaving of get, set,
\* invalidate and len by concurrent callers: no operation raises, two
\* callers that both find the same entry expired both get a miss, and the
\* value stored by a set that completed is still in the Cache when the
\* other callers only ran get or len.
C21_ConcurrentCacheConsistent ==
    /\ \A t \in Threads : threads[t].op # "cached" => ~Raises(t)
    /\ \A t, u \in Threads : BothFoundExpired(t, u) => Missed(t) /\ Missed(u)
    /\ \A t \in Threads :
          (AllDone /\ SetBesideReaders(t)) => Holds(threads[t].key, StoredBy(t))

(***************************************************************************)
(* Properties of the HTML renderer.                                        *)
(***************************************************************************)
NonEmpty(seqs) == SelectSeq(seqs, LAMBDA x : x # << >>)

\* The field contents render_sale_info writes, in the order it writes
\* them: the domain, the price, the contact (as link target and, without
\* its scheme, as link text when it is a mailto: URI), the url (as link
\* target and as link text), the expiry.
Interpolated(sale_info) ==
    LET contact == InfoGet(sale_info, "contact")
    IN NonEmpty(<< InfoGet(sale_info, "domain"), InfoGet(sale_info, "price") >>
                \o (IF startswith(contact, Mailto)
                    THEN <<contact, SubSeq(contact, 8, Len(contact))>>
                    ELSE <<contact>>)
                \o << InfoGet(sale_info, "url"), InfoGet(sale_info, "url"),
                      InfoGet(sale_info, "expires") >>)

\* The runs of an output as a browser shows them.
Shown(out) == [i \in 1..Len(Runs(out, << >>)) |-> unescape(Runs(out, << >>)[i])]

\* The same text without special characters.
Harmless(text) == [i \in 1..Len(text) |-> IF text[i] \in SpecialChars THEN "a" ELSE text[i]]

HarmlessInfo(sale_info) == [k \in DOMAIN sale_info |-> Harmless(sale_info[k])]

\* C22: the HTML renderer escapes every interpolated field: each of the
\* characters < > & " and ' of a field of sale_info or of an error message
\* is in the output of render_sale_info and render_error only as its
\* entity (a browser shows each field as it was given), and the markup of
\* the output is the one of the same input without special characters.
C22_EveryFieldEscaped ==
    /\ rendered.tag = "sale" =>
          /\ Shown(rendered.out) = Interpolated(given_info)
          /\ Markup(rendered.out) = Markup(render_sale_info(HarmlessInfo(given_info)))
    /\ rendered.tag = "error" =>
          /\ Shown(rendered.out) = <<given_message>>
          /\ Markup(rendered.out) = Markup(render_error(Harmless(given_message)))

(***************************************************************************)
(* Properties of the lookup pipeline, continued.                           *)
(***************************************************************************)
\* C23: in every Response returned by get_domain_sale_status, for sale or
\* not and with or without errors, source is a list whose elements are
\* drawn from {"dns", "rdap"}, never a scalar string.
C23_SourceIsAList ==
    last.called =>
        /\ last.source.list
        /\ SeqToSet(last.source.items) \subseteq {"dns", "rdap"}

(***************************************************************************)
(* Properties of the CLI.                                                  *)
(***************************************************************************)
\* C24: main returns exit code 0 exactly when the errors list of the
\* Response is empty and 1 otherwise, for every output format; a lookup
\* that found the domain for sale exits 0.
C24_ExitCode ==
    (cli_exit # NotCalled) =>
        /\ (cli_exit.val = 0) <=> (cli_response.errors = << >>)
        /\ cli_exit.val \in {0, 1}
        /\ cli_response.for_sale => cli_exit.val = 0

(***************************************************************************)
(* Properties of the RDAP client on its own, continued.                    *)
(***************************************************************************)
\* An HTTP request the client made timed out: the bootstrap fetch, or the
\* domain query that follows a bootstrap naming a server.
RequestTimedOut ==
    \/ rdap_reply.bootstrap = "Timeout"
    \/ /\ rdap_reply.bootstrap = "200"
       /\ rdap_reply.server
       /\ rdap_reply.query = "Timeout"

\* C25: when an HTTP request made by the RDAP client (the bootstrap fetch
\* or the domain query) times out, check_for_sale_status fails with the
\* typed Timeout error, not with RDAPError.
C25_TimeoutIsTyped ==
    (rdap_outcome # NotCalled /\ RequestTimedOut) =>
        /\ rdap_outcome.tag = "raise"
        /\ rdap_outcome.exc = "TimeoutError"

(***************************************************************************)
(* Properties of the lookup pipeline over several calls.                   *)
(***************************************************************************)
\* C26: the RDAP bootstrap table is fetched only when it is absent or
\* older than one hour: a call that makes an RDAP query less than one hour
\* after a call whose bootstrap fetch succeeded performs no bootstrap
\* fetch.
C26_BootstrapFetchedOncePerHour ==
    [][(/\ IsCall
        /\ last.bootstrap = "200"
        /\ now - last.at <= RDAPClient.bootstrap_ttl
        /\ last'.rdap_queries = 1) => last'.bootstrap = "none"]_vars

\* The last call wrote an entry to dns_cache, to rdap_cache.
WroteDns == last.called /\ last.dns_queries = 1 /\ last.dns_result = "ok"

WroteRdap == last.called /\ last.rdap_queries = 1 /\ last.rdap_result \in {"true", "false"}

\* C27: an entry written to dns_cache or rdap_cache during a call expires
\* cache_ttl seconds after it was written, where cache_ttl is the option
\* of that call (300 when left at its default), whatever cache_ttl
\* earlier calls used.
C27_EntryLivesForTheCallsTtl ==
    /\ WroteDns =>
          dns_cache.cache[dns_key(last.domain)].expiry = last.at + last.cache_ttl
    /\ WroteRdap =>
          rdap_cache.cache[rdap_key(last.domain)].expiry = last.at + last.cache_ttl

(***************************************************************************)
(* Properties of the cached wrapper under concurrent callers.              *)
(***************************************************************************)
\* Callers t and u ran the wrapper for one key, the get of both returned
\* None, both have returned and no other caller has used the Cache.
BothMissed(t, u) ==
    /\ t # u
    /\ threads[t].op = "cached" /\ threads[u].op = "cached"
    /\ threads[t].key = threads[u].key
    /\ threads[t].found \in {"absent", "expired"}
    /\ threads[u].found \in {"absent", "expired"}
    /\ threads[t].pc = "done" /\ threads[u].pc = "done"
    /\ ~Raises(t) /\ ~Raises(u)
    /\ \A w \in Threads \ {t, u} : threads[w].pc = "idle"

\* C28: when two callers run a cached lookup for the same key
\* concurrently and both miss, both perform the underlying query, each
\* caller returns the result of its own query, and afterwards the cache
\* holds one entry for the key whose value is the result of one of the
\* two queries.
C28_BothMissBothQuery ==
    \A t, u \in Threads :
        BothMissed(t, u) =>
            /\ threads[t].queried /\ threads[u].queried
            /\ threads[t].result = Ok(QueriedBy(t))
            /\ threads[u].result = Ok(QueriedBy(u))
            /\ \/ Holds(threads[t].key, QueriedBy(t))
               \/ Holds(threads[t].key, QueriedBy(u))

C28_Witness ==
    /\ BothMissed(1, 2)
    /\ threads[1].found = "expired"
    /\ threads[2].found = "expired"
    /\ Holds(threads[1].key, QueriedBy(1))

(***************************************************************************)
(* Properties of the Cache against the clock.                              *)
(***************************************************************************)
\* C29: the lifetime of a cache entry does not depend on wall-clock jumps:
\* an entry set with ttl T is a hit for every read made less than T
\* seconds of elapsed time after the set and a miss for every read made
\* later, also when the system clock is moved between set and get.
C29_LifetimeIsElapsedTime ==
    (probe.written /\ probe.read # "none") =>
        ((probe.read = "hit") <=> (probe.read_at - probe.set_at < probe.ttl))

(***************************************************************************)
(* Frame of a call: what it leaves alone.                                  *)
(***************************************************************************)
\* The dns_cache keys whose entry a step leaves in place.
KeptEntries ==
    { k \in DOMAIN dns_cache.cache \cap DOMAIN dns_cache'.cache :
        dns_cache'.cache[k].value.sources = dns_cache.cache[k].value.sources }

\* C30: a Response returned by get_domain_sale_status is not changed by
\* a later call: the list that is its source keeps the items it had at
\* return time, and the later call does not change the sources list of an
\* entry it leaves in dns_cache.  (errors is a list of the Response alone:
\* no other object refers to it.)
C30_ReturnedResponseIsFrozen ==
    [][IsCall =>
         /\ (last.called /\ last.source.list /\ last.source_ref \in DOMAIN heap')
               => heap'[last.source_ref] = last.source.items
         /\ \A k \in KeptEntries :
               heap'[dns_cache'.cache[k].value.sources]
                   = heap[dns_cache.cache[k].value.sources]]_vars

====
